---- MODULE Spec2Model ----
(***************************************************************************)
(* Model of the request-time attack detection and blocking engine of the   *)
(* honeypot e-commerce application (src/advanced_security.py), with the    *)
(* callers in src/app.py and src/ecommerce_api.py that drive it, and of the *)
(* session tracking of the Cowrie log forwarder (src/cowrie_to_mongodb.py). *)
(*                                                                         *)
(* Text is a TLA+ string; Char(s, i) is its i-th character.  Time is a     *)
(* number of seconds; every handler runs at the instant `now`.             *)
(* The audit collections that no modelled operation reads back             *)
(* (threat_intelligence, attack_patterns, auth_attempts, failed_logins,    *)
(* successful_logins, sessions, user_activities) are not part of the       *)
(* state; web_attacks, blocked_ips and blocked_users are, and so are the   *)
(* forwarder's brute_force_attacks and shell_interactions.                 *)
(***************************************************************************)
EXTENDS Integers, Sequences, FiniteSets, Bags, TLC

VARIABLES
    now,                  \* the clock: datetime.now() / datetime.utcnow(), in seconds
    ip_failed_attempts,   \* IP -> list of failure timestamps
    user_failed_attempts, \* username -> list of failure dicts
    blocked_ips,          \* set of blocked IP addresses
    blocked_users,        \* set of blocked usernames
    user_activities,      \* username -> list of activities
    ip_activities,        \* IP -> list of activities
    blocked_users_per_ip, \* IP -> set of usernames blocked from it
    db_connected,         \* DatabaseHandler.connected: the collections are not None
    db_web_attacks,       \* collection web_attacks: a bag of attack records
    db_blocked_ips,       \* collection blocked_ips: a bag of block records
    db_blocked_users,     \* collection blocked_users: a bag of block records
    db_failing,           \* the store is unreachable: a write to a collection raises
    workers,              \* the calls in flight in the threads of the server
    since_unblock,        \* username -> failed logins since its last unblock_user
    last,                 \* the last call made and what it returned
    active_sessions,      \* Cowrie forwarder: session id -> session data
    session_commands,     \* Cowrie forwarder: session id -> list of commands
    session_auth_attempts,\* Cowrie forwarder: session id -> list of login attempts
    brute_force_attacks,  \* Cowrie forwarder: collection brute_force_attacks, a bag
    shell_interactions,   \* Cowrie forwarder: collection shell_interactions, a bag
    processed             \* Cowrie forwarder: the last event processed

vars == <<now, ip_failed_attempts, user_failed_attempts, blocked_ips, blocked_users,
          user_activities, ip_activities, blocked_users_per_ip, db_connected,
          db_web_attacks, db_blocked_ips, db_blocked_users, db_failing, workers,
          since_unblock, last,
          active_sessions, session_commands, session_auth_attempts,
          brute_force_attacks, shell_interactions, processed>>

\* the state of the Cowrie forwarder, a process of its own
cowrie_vars == <<active_sessions, session_commands, session_auth_attempts,
                 brute_force_attacks, shell_interactions, processed>>

---------------------------------------------------------------------------
(* Program constants.                                                      *)

MAX_FAILED_ATTEMPTS == 5
MAX_BLOCKED_USERS_PER_IP == 3
BLOCK_DURATION_SECONDS == 3600
SUSPICIOUS_ACTIVITY_COUNT == 10
RATE_LIMIT_WINDOW == 60
MAX_REQUESTS_PER_MINUTE == 100
\* timedelta(minutes=10) of check_failed_login_attempts, in seconds
FAILED_LOGIN_WINDOW == 600
\* timedelta(minutes=1) of log_user_activity, in seconds
ACTIVITY_WINDOW == 60

\* Python's None
None == "None"

---------------------------------------------------------------------------
(* Text: the part of Python's str and re that the detectors use.           *)

Char(s, i) == SubSeq(s, i, i)

\* the single and the double quote
SQ == "'"
DQ == "\""
\* the backquote, which a TLA+ string cannot hold: ^ stands for it in every text
BQ == "^"

UpperLetters == "ABCDEFGHIJKLMNOPQRSTUVWXYZ"
LowerLetters == "abcdefghijklmnopqrstuvwxyz"
Digits == "0123456789"

InText(c, t) == \E i \in 1..Len(t) : Char(t, i) = c

\* re.IGNORECASE: characters are compared in lower case
LowerChar(c) ==
    IF InText(c, UpperLetters)
    THEN Char(LowerLetters, CHOOSE i \in 1..Len(UpperLetters) : Char(UpperLetters, i) = c)
    ELSE c

\* \d, \s and \w
IsDigit(c) == InText(c, Digits)
IsSpace(c) == c \in {" ", "\t", "\n", "\r", "\f"}
IsWord(c) == InText(c, UpperLetters) \/ InText(c, LowerLetters) \/ IsDigit(c) \/ c = "_"

\* the lower-case literal pat occurs in s at position i, ignoring case
MatchAt(s, i, pat) ==
    /\ i >= 1
    /\ i + Len(pat) - 1 <= Len(s)
    /\ \A k \in 1..Len(pat) : LowerChar(Char(s, i + k - 1)) = Char(pat, k)

\* re.search of a literal
Contains(s, pat) == \E i \in 1..Len(s) : MatchAt(s, i, pat)

\* \bword\b at position i: word is made of \w characters only
WordAt(s, i, word) ==
    /\ MatchAt(s, i, word)
    /\ (i = 1 \/ ~IsWord(Char(s, i - 1)))
    /\ (i + Len(word) > Len(s) \/ ~IsWord(Char(s, i + Len(word))))

\* the first position >= i whose character is not a space (\s*, greedy)
RECURSIVE SkipSpaces(_, _)
SkipSpaces(s, i) ==
    IF i <= Len(s) /\ IsSpace(Char(s, i)) THEN SkipSpaces(s, i + 1) ELSE i

\* the first position >= i whose character is not a digit (\d*, greedy)
RECURSIVE SkipDigits(_, _)
SkipDigits(s, i) ==
    IF i <= Len(s) /\ IsDigit(Char(s, i)) THEN SkipDigits(s, i + 1) ELSE i

\* no newline in s[i..j]: what "." may match
NoNewline(s, i, j) == \A k \in i..j : Char(s, k) # "\n"

\* \bOR\b\s+\d+\s*=\s*\d+ (and the same with AND) matched at position i
TautologyAt(s, i, word) ==
    LET a == i + Len(word)
        b == SkipSpaces(s, a)
        c == SkipDigits(s, b)
        d == SkipSpaces(s, c)
        e == SkipSpaces(s, d + 1)
    IN  /\ WordAt(s, i, word)
        /\ b > a
        /\ c > b
        /\ d <= Len(s) /\ Char(s, d) = "="
        /\ e <= Len(s) /\ IsDigit(Char(s, e))

\* literal followed by \s* and one of the listed words, e.g. ;\s*(ls|cat|...)
ChainAt(s, i, lit, words) ==
    /\ MatchAt(s, i, lit)
    /\ \E w \in words : MatchAt(s, SkipSpaces(s, i + Len(lit)), w)

---------------------------------------------------------------------------
(* Attack detection: each detector is re.search of its patterns, in order, *)
(* over the text, ignoring case.                                           *)

SqlKeywords == {"select", "insert", "update", "delete", "drop", "create", "alter",
                "exec", "union"}

\* detect_sql_injection without its two tautology patterns
detect_sql_injection_no_tautology(data) ==
    \/ \E i \in 1..Len(data) : \E w \in SqlKeywords : WordAt(data, i, w)
    \/ \E lit \in {"--", "#", "/*", "*/"} : Contains(data, lit)
    \/ \E lit \in {SQ, DQ, ";", ")", "%27", "%22"} : Contains(data, lit)

detect_sql_injection(data) ==
    \/ \E i \in 1..Len(data) : \E w \in SqlKeywords : WordAt(data, i, w)
    \/ \E lit \in {"--", "#", "/*", "*/"} : Contains(data, lit)
    \/ \E lit \in {SQ, DQ, ";", ")", "%27", "%22"} : Contains(data, lit)
    \/ \E i \in 1..Len(data) : TautologyAt(data, i, "or")
    \/ \E i \in 1..Len(data) : TautologyAt(data, i, "and")

\* <script[^>]*>.*?</script>
ScriptTagAt(s, i) ==
    /\ MatchAt(s, i, "<script")
    /\ \E j \in (i + 7)..Len(s) :
          /\ Char(s, j) = ">"
          /\ \A k \in (i + 7)..(j - 1) : Char(s, k) # ">"
          /\ \E e \in (j + 1)..Len(s) : MatchAt(s, e, "</script>") /\ NoNewline(s, j + 1, e - 1)

\* literal followed by \s* and one character, e.g. onerror\s*=
ThenAfterSpaces(s, lit, c) ==
    \E i \in 1..Len(s) :
        /\ MatchAt(s, i, lit)
        /\ MatchAt(s, SkipSpaces(s, i + Len(lit)), c)

\* <img[^>]+src
ImgSrcAt(s, i) ==
    /\ MatchAt(s, i, "<img")
    /\ \E j \in (i + 5)..Len(s) :
          /\ MatchAt(s, j, "src")
          /\ \A k \in (i + 4)..(j - 1) : Char(s, k) # ">"

detect_xss(data) ==
    \/ \E i \in 1..Len(data) : ScriptTagAt(data, i)
    \/ Contains(data, "javascript:")
    \/ ThenAfterSpaces(data, "onerror", "=")
    \/ ThenAfterSpaces(data, "onload", "=")
    \/ Contains(data, "<iframe")
    \/ \E i \in 1..Len(data) : ImgSrcAt(data, i)
    \/ ThenAfterSpaces(data, "alert", "(")
    \/ Contains(data, "document.cookie")

detect_path_traversal(data) ==
    \E lit \in {"../", "..\\", "/etc/passwd", "/etc/shadow", "c:\\windows", "%2e%2e", "..%2f"} :
        Contains(data, lit)

ReconBinaries == {"ls", "cat", "whoami", "id", "pwd", "uname"}

\* open ... close on one line: the backquoted command and $( ... )
Enclosed(s, open, close) ==
    \E i \in 1..Len(s) :
        /\ MatchAt(s, i, open)
        /\ \E j \in (i + Len(open))..Len(s) :
              MatchAt(s, j, close) /\ NoNewline(s, i + Len(open), j - 1)

detect_command_injection(data) ==
    \/ \E i \in 1..Len(data) : ChainAt(data, i, ";", ReconBinaries)
    \/ \E i \in 1..Len(data) : ChainAt(data, i, "|", ReconBinaries)
    \/ \E i \in 1..Len(data) : ChainAt(data, i, "&&", ReconBinaries)
    \/ Enclosed(data, BQ, BQ)
    \/ Enclosed(data, "$(", ")")

SuspiciousAgents == {"sqlmap", "nikto", "nmap", "masscan", "zap", "burp", "metasploit",
                     "havij", "acunetix", "nessus", "openvas", "scanner", "bot",
                     "crawler", "spider"}

\* user_agent.lower() contains one of the listed substrings
is_suspicious_user_agent(user_agent) ==
    \E agent \in SuspiciousAgents : Contains(user_agent, agent)

---------------------------------------------------------------------------
(* str() of the request data, as Python renders it.                        *)

\* repr of a str: single quotes, unless the text holds a single quote and no
\* double quote; the delimiter, the backslash and the newline are escaped
RECURSIVE Escaped(_, _, _)
Escaped(s, i, q) ==
    IF i > Len(s) THEN ""
    ELSE LET c == Char(s, i)
             e == IF c = "\\" THEN "\\\\"
                  ELSE IF c = q THEN "\\" \o q
                  ELSE IF c = "\n" THEN "\\n"
                  ELSE IF c = "\t" THEN "\\t"
                  ELSE IF c = "\r" THEN "\\r"
                  ELSE c
         IN  e \o Escaped(s, i + 1, q)

PyRepr(s) ==
    LET q == IF InText(SQ, s) /\ ~InText(DQ, s) THEN DQ ELSE SQ
    IN  q \o Escaped(s, 1, q) \o q

\* the items of a dict, 'k': 'v' joined by ", "
RECURSIVE ItemsText(_, _)
ItemsText(items, i) ==
    IF i > Len(items) THEN ""
    ELSE PyRepr(items[i][1]) \o ": " \o PyRepr(items[i][2])
         \o (IF i < Len(items) THEN ", " ELSE "")
         \o ItemsText(items, i + 1)

\* str(value): a dict in braces, a str as it is
PyStr(value) ==
    IF value.type = "dict" THEN "{" \o ItemsText(value.items, 1) \o "}"
    ELSE value.s

---------------------------------------------------------------------------
(* The inputs: addresses, users and requests.                              *)

LOOPBACK == "127.0.0.1"
PRIVATE_10 == "10.0.0.5"
OUTSIDE_172 == "172.32.0.1"
PUBLIC == "203.0.113.7"

IPs == {LOOPBACK, PRIVATE_10, OUTSIDE_172, PUBLIC}
Users == {"alice", "bob", "carol"}

\* str.startswith
StartsWith(s, prefix) == Len(prefix) <= Len(s) /\ SubSeq(s, 1, Len(prefix)) = prefix

\* the values request.get_json() returns, or fails to: of a malformed body s is
\* the text received
Dict(items) == [type |-> "dict", items |-> items, s |-> ""]
Str(s) == [type |-> "str", items |-> <<>>, s |-> s]
Malformed == [type |-> "malformed", items |-> <<>>, s |-> "{" \o DQ \o "email" \o DQ \o ": "]

Browser == "Mozilla/5.0"

JsonRequest(value) ==
    [is_json |-> TRUE, json |-> value, form |-> <<>>, args |-> <<>>, user_agent |-> Browser]
FormRequest(items) ==
    [is_json |-> FALSE, json |-> Dict(<<>>), form |-> items, args |-> <<>>, user_agent |-> Browser]
QueryRequest(items) ==
    [is_json |-> FALSE, json |-> Dict(<<>>), form |-> <<>>, args |-> items, user_agent |-> Browser]

TAUTOLOGY == "1 OR 1=1"
SCRIPT == "<script>alert(1)</script>"
\* texts that match the detectors after the first only, and one that matches all
FRAME_PATH == "<iframe src=../a>"
PATH_PIPE == "../a | ls"
CHAIN == "a && whoami"
ALL_KINDS == "<iframe>../a; ls"
SCANNER == "sqlmap/1.7"

\* the requests sent, by name
RequestNames == {"empty", "json_tautology", "form_tautology", "query_tautology",
                 "text_tautology", "query_search", "json_login", "query_script",
                 "text_script", "text_plain", "malformed_json", "text_frame_path",
                 "text_path_pipe", "text_chain", "text_all", "scanner_empty"}

RequestOf(name) ==
    CASE name = "empty" -> QueryRequest(<<>>)
      [] name = "json_tautology" -> JsonRequest(Dict(<< <<"q", TAUTOLOGY>> >>))
      [] name = "form_tautology" -> FormRequest(<< <<"q", TAUTOLOGY>> >>)
      [] name = "query_tautology" -> QueryRequest(<< <<"q", TAUTOLOGY>> >>)
      [] name = "text_tautology" -> JsonRequest(Str(TAUTOLOGY))
      [] name = "query_search" -> QueryRequest(<< <<"search", "laptop">> >>)
      [] name = "json_login" ->
            JsonRequest(Dict(<< <<"email", "alice">>, <<"password", "secret">> >>))
      [] name = "query_script" -> QueryRequest(<< <<"q", SCRIPT>> >>)
      [] name = "text_script" -> JsonRequest(Str(SCRIPT))
      [] name = "text_plain" -> JsonRequest(Str("laptop"))
      [] name = "malformed_json" -> JsonRequest(Malformed)
      [] name = "text_frame_path" -> JsonRequest(Str(FRAME_PATH))
      [] name = "text_path_pipe" -> JsonRequest(Str(PATH_PIPE))
      [] name = "text_chain" -> JsonRequest(Str(CHAIN))
      [] name = "text_all" -> JsonRequest(Str(ALL_KINDS))
      [] name = "scanner_empty" -> [QueryRequest(<<>>) EXCEPT !.user_agent = SCANNER]

---------------------------------------------------------------------------
(* The state as one record, so that a method is a function from the state  *)
(* before the call to the state after it.                                  *)

State ==
    [now |-> now,
     ip_failed_attempts |-> ip_failed_attempts,
     user_failed_attempts |-> user_failed_attempts,
     blocked_ips |-> blocked_ips,
     blocked_users |-> blocked_users,
     user_activities |-> user_activities,
     ip_activities |-> ip_activities,
     blocked_users_per_ip |-> blocked_users_per_ip,
     db_connected |-> db_connected,
     db_web_attacks |-> db_web_attacks,
     db_blocked_ips |-> db_blocked_ips,
     db_blocked_users |-> db_blocked_users,
     db_failing |-> db_failing]

\* what the history since_unblock becomes by the call l: unblock_user starts the
\* count of the user, a failed login adds to it, a successful login ends it
Tracked(l) ==
    IF l.op = "unblock_user" /\ l.status = 200
    THEN [since_unblock EXCEPT ![l.user] = [unblocked |-> TRUE, failures |-> 0]]
    ELSE IF l.op = "log_failed_login"
    THEN [since_unblock EXCEPT ![l.user].failures =
                                   IF since_unblock[l.user].unblocked THEN @ + 1 ELSE @]
    ELSE IF l.op = "log_successful_login"
    THEN [since_unblock EXCEPT ![l.user] = [unblocked |-> FALSE, failures |-> 0]]
    ELSE since_unblock

\* the program state becomes S
Assign(S) ==
    /\ now' = S.now
    /\ ip_failed_attempts' = S.ip_failed_attempts
    /\ user_failed_attempts' = S.user_failed_attempts
    /\ blocked_ips' = S.blocked_ips
    /\ blocked_users' = S.blocked_users
    /\ user_activities' = S.user_activities
    /\ ip_activities' = S.ip_activities
    /\ blocked_users_per_ip' = S.blocked_users_per_ip
    /\ db_connected' = S.db_connected
    /\ db_web_attacks' = S.db_web_attacks
    /\ db_blocked_ips' = S.db_blocked_ips
    /\ db_blocked_users' = S.db_blocked_users
    /\ db_failing' = S.db_failing

\* the threads of the server that handle requests, and a thread with no call in
\* flight: pc is the step it is at, kept is the list it has read and pruned
Workers == {"w1", "w2", "w3"}
Idle == [pc |-> "idle", user |-> None, ip |-> None, kept |-> <<>>, calls |-> 0]

\* the call leaves the state S and the record l of what it returned; a call made
\* in one piece leaves the calls in flight where they are
Commit(S, l) ==
    /\ Assign(S)
    /\ workers' = workers
    /\ since_unblock' = Tracked(l)
    /\ last' = l
    /\ UNCHANGED cowrie_vars

\* the record of a call: status is the HTTP status returned (0: none, the request
\* goes on), raised tells whether the call ended in an exception, before is the
\* number of failures the user of a login call had on record when it was made
Call(op, ip, user, request, status, raised, before) ==
    [op |-> op, ip |-> ip, user |-> user, request |-> request, status |-> status,
     raised |-> raised, before |-> before]

\* collection.insert_one(doc) on a collection that is not None
insert_one(S, collection, doc) ==
    IF S.db_connected THEN collection (+) SetToBag({doc}) ELSE collection

\* insert_one raises: the collections are not None and the store is unreachable
WriteRaises(S) == S.db_connected /\ S.db_failing

---------------------------------------------------------------------------
(* Blocking.                                                               *)

\* an is_ip_blocked that reports no address blocked
is_ip_blocked_nobody(S, ip) == FALSE

is_ip_blocked(S, ip) ==
    IF ip \in {"127.0.0.1", "localhost", "::1"} THEN FALSE ELSE ip \in S.blocked_ips

is_user_blocked(S, username) == username \in S.blocked_users

\* of the block record the model keeps the subject, the expiry time and the
\* status
\* a block_ip that takes an already blocked address off the set
block_ip_toggle(S, ip, email) ==
    [S EXCEPT !.blocked_ips = IF ip \in @ THEN @ \ {ip} ELSE @ \cup {ip},
              !.db_blocked_ips =
                  insert_one(S, @, [ip |-> ip, email |-> email,
                                    expires_at |-> S.now + BLOCK_DURATION_SECONDS,
                                    status |-> "active"])]

block_ip(S, ip, email) ==
    [S EXCEPT !.blocked_ips = @ \cup {ip},
              !.db_blocked_ips =
                  insert_one(S, @, [ip |-> ip, email |-> email,
                                    expires_at |-> S.now + BLOCK_DURATION_SECONDS,
                                    status |-> "active"])]

\* a block_user that escalates only past the threshold
block_user_above_threshold(S, email, ip) ==
    LET S1 == [S EXCEPT !.blocked_users = @ \cup {email}]
        S2 == IF ip # None
              THEN LET S2a == [S1 EXCEPT !.blocked_users_per_ip[ip] = @ \cup {email}]
                   IN  IF Cardinality(S2a.blocked_users_per_ip[ip]) > MAX_BLOCKED_USERS_PER_IP
                       THEN block_ip(S2a, ip, email)
                       ELSE S2a
              ELSE S1
    IN  [S2 EXCEPT !.db_blocked_users =
                       insert_one(S2, @, [email |-> email, ip |-> ip,
                                          expires_at |-> S2.now + BLOCK_DURATION_SECONDS,
                                          status |-> "active"])]

\* a block_user that counts a user blocked again from the address as one more
block_user_counting_repeats(S, email, ip) ==
    LET S1 == [S EXCEPT !.blocked_users = @ \cup {email}]
        S2 == IF ip # None
              THEN LET S2a == [S1 EXCEPT !.blocked_users_per_ip[ip] =
                                        IF email \in @ THEN @ \cup {"again"} ELSE @ \cup {email}]
                   IN  IF Cardinality(S2a.blocked_users_per_ip[ip]) >= MAX_BLOCKED_USERS_PER_IP
                       THEN block_ip(S2a, ip, email)
                       ELSE S2a
              ELSE S1
    IN  [S2 EXCEPT !.db_blocked_users =
                       insert_one(S2, @, [email |-> email, ip |-> ip,
                                          expires_at |-> S2.now + BLOCK_DURATION_SECONDS,
                                          status |-> "active"])]

block_user(S, email, ip) ==
    LET S1 == [S EXCEPT !.blocked_users = @ \cup {email}]
        S2 == IF ip # None
              THEN LET S2a == [S1 EXCEPT !.blocked_users_per_ip[ip] = @ \cup {email}]
                   IN  IF Cardinality(S2a.blocked_users_per_ip[ip]) >= MAX_BLOCKED_USERS_PER_IP
                       THEN block_ip(S2a, ip, email)
                       ELSE S2a
              ELSE S1
    IN  [S2 EXCEPT !.db_blocked_users =
                       insert_one(S2, @, [email |-> email, ip |-> ip,
                                          expires_at |-> S2.now + BLOCK_DURATION_SECONDS,
                                          status |-> "active"])]

---------------------------------------------------------------------------
(* The request gate.                                                       *)

\* a safe_get_request_data that hands a body it could not parse on as text
safe_get_request_data_raw(r) ==
    IF r.is_json
    THEN IF r.json.type = "malformed" THEN Str(r.json.s) ELSE r.json
    ELSE IF r.form # <<>> THEN Dict(r.form)
    ELSE IF r.args # <<>> THEN Dict(r.args)
    ELSE Dict(<<>>)

\* request.is_json, else request.form, else request.args, else {}; {} when
\* reading the body raises
safe_get_request_data(r) ==
    IF r.is_json
    THEN IF r.json.type = "malformed" THEN Dict(<<>>) ELSE r.json
    ELSE IF r.form # <<>> THEN Dict(r.form)
    ELSE IF r.args # <<>> THEN Dict(r.args)
    ELSE Dict(<<>>)

\* dict.get(key): the value, or None
DictGet(items, key) ==
    IF \E i \in 1..Len(items) : items[i][1] = key
    THEN items[CHOOSE i \in 1..Len(items) : items[i][1] = key][2]
    ELSE None

\* req_data.get('email') or req_data.get('username'); None when req_data is no
\* dict (the AttributeError is swallowed)
RequestEmail(req_data) ==
    IF req_data.type # "dict" THEN None
    ELSE LET e == DictGet(req_data.items, "email")
         IN  IF e # None /\ e # "" THEN e ELSE DictGet(req_data.items, "username")

\* of the attack record the model keeps the type, the address, the email and the
\* severity
log_attack(S, ip, attack_type, severity, email) ==
    [S EXCEPT !.db_web_attacks =
                  insert_one(S, @, [attack_type |-> attack_type, ip |-> ip,
                                    email |-> email, severity |-> severity])]

\* the activities of the list that are younger than window seconds
Recent(activities, t, window) ==
    SelectSeq(activities, LAMBDA a : a.timestamp > t - window)

\* what check_request computes from the request alone, request by request: the
\* email it extracts and the verdict of each detector on str(request data)
Scanned ==
    [name \in RequestNames |->
        LET req_data == safe_get_request_data(RequestOf(name))
            request_data == PyStr(req_data)
        IN  [email |-> RequestEmail(req_data),
             sql_injection |-> detect_sql_injection(request_data),
             xss |-> detect_xss(request_data),
             path_traversal |-> detect_path_traversal(request_data),
             command_injection |-> detect_command_injection(request_data)]]

\* a check_request that records the request of an exempted address
check_request_recording_exempted(S, ip, name) ==
    LET email == Scanned[name].email
        recent_requests == Recent(S.ip_activities[ip], S.now, RATE_LIMIT_WINDOW)
        Attack(attack_type, severity) ==
            IF WriteRaises(S) THEN [S |-> S, status |-> 500]
            ELSE [S |-> block_ip(log_attack(S, ip, attack_type, severity, email), ip, email),
                  status |-> 400]
    IN  IF \/ ip \in {"127.0.0.1", "localhost", "::1"}
           \/ StartsWith(ip, "10.")
           \/ StartsWith(ip, "172.")
        THEN [S |-> [S EXCEPT !.ip_activities[ip] = Append(@, [timestamp |-> S.now])],
              status |-> 0]
        ELSE IF is_ip_blocked(S, ip)
        THEN [S |-> S, status |-> 403]
        ELSE IF Len(recent_requests) > MAX_REQUESTS_PER_MINUTE
        THEN IF WriteRaises(S)
             THEN [S |-> [S EXCEPT !.blocked_ips = @ \cup {ip}], status |-> 500]
             ELSE [S |-> block_ip(S, ip, email), status |-> 429]
        ELSE IF Scanned[name].sql_injection THEN Attack("sql_injection", "high")
        ELSE IF Scanned[name].xss THEN Attack("xss", "high")
        ELSE IF Scanned[name].path_traversal THEN Attack("path_traversal", "high")
        ELSE IF Scanned[name].command_injection THEN Attack("command_injection", "critical")
        ELSE [S |-> [S EXCEPT !.ip_activities[ip] = Append(@, [timestamp |-> S.now])],
              status |-> 0]

\* a check_request that runs the cross-site scripting detector first
check_request_xss_first(S, ip, name) ==
    LET email == Scanned[name].email
        recent_requests == Recent(S.ip_activities[ip], S.now, RATE_LIMIT_WINDOW)
        Attack(attack_type, severity) ==
            IF WriteRaises(S) THEN [S |-> S, status |-> 500]
            ELSE [S |-> block_ip(log_attack(S, ip, attack_type, severity, email), ip, email),
                  status |-> 400]
    IN  IF \/ ip \in {"127.0.0.1", "localhost", "::1"}
           \/ StartsWith(ip, "10.")
           \/ StartsWith(ip, "172.")
        THEN [S |-> S, status |-> 0]
        ELSE IF is_ip_blocked(S, ip)
        THEN [S |-> S, status |-> 403]
        ELSE IF Len(recent_requests) > MAX_REQUESTS_PER_MINUTE
        THEN IF WriteRaises(S)
             THEN [S |-> [S EXCEPT !.blocked_ips = @ \cup {ip}], status |-> 500]
             ELSE [S |-> block_ip(S, ip, email), status |-> 429]
        ELSE IF Scanned[name].xss THEN Attack("xss", "high")
        ELSE IF Scanned[name].sql_injection THEN Attack("sql_injection", "high")
        ELSE IF Scanned[name].path_traversal THEN Attack("path_traversal", "high")
        ELSE IF Scanned[name].command_injection THEN Attack("command_injection", "critical")
        ELSE [S |-> [S EXCEPT !.ip_activities[ip] = Append(@, [timestamp |-> S.now])],
              status |-> 0]

\* the state after the call and the status returned (0: None, the request goes
\* on; 500: the call raised, which no caller catches).  A write that raises ends
\* the call where it is made: in log_attack before block_ip is called, in
\* block_ip after the address was added to blocked_ips
check_request(S, ip, name) ==
    LET email == Scanned[name].email
        recent_requests == Recent(S.ip_activities[ip], S.now, RATE_LIMIT_WINDOW)
        Attack(attack_type, severity) ==
            IF WriteRaises(S) THEN [S |-> S, status |-> 500]
            ELSE [S |-> block_ip(log_attack(S, ip, attack_type, severity, email), ip, email),
                  status |-> 400]
    IN  IF \/ ip \in {"127.0.0.1", "localhost", "::1"}
           \/ StartsWith(ip, "10.")
           \/ StartsWith(ip, "172.")
        THEN [S |-> S, status |-> 0]
        ELSE IF is_ip_blocked(S, ip)
        THEN [S |-> S, status |-> 403]
        ELSE IF Len(recent_requests) > MAX_REQUESTS_PER_MINUTE
        THEN IF WriteRaises(S)
             THEN [S |-> [S EXCEPT !.blocked_ips = @ \cup {ip}], status |-> 500]
             ELSE [S |-> block_ip(S, ip, email), status |-> 429]
        ELSE IF Scanned[name].sql_injection THEN Attack("sql_injection", "high")
        ELSE IF Scanned[name].xss THEN Attack("xss", "high")
        ELSE IF Scanned[name].path_traversal THEN Attack("path_traversal", "high")
        ELSE IF Scanned[name].command_injection THEN Attack("command_injection", "critical")
        ELSE [S |-> [S EXCEPT !.ip_activities[ip] = Append(@, [timestamp |-> S.now])],
              status |-> 0]

---------------------------------------------------------------------------
(* Failed and successful logins.                                           *)

\* what the two failure lists hold: ip_failed_attempts a datetime per failure,
\* user_failed_attempts a dict per failure
Datetime(t) == [type |-> "datetime", timestamp |-> t]
FailureDict(t, password, username) ==
    [type |-> "dict", timestamp |-> t, password |-> password, username |-> username]

\* t > cutoff_time is defined for a datetime t; for a dict it raises TypeError
Comparable(t) == t.type = "datetime"

\* the state after the call, what it returns (over), and whether the comparison
\* of the list comprehension raised, which leaves the stored list as it was
check_failed_login_attempts(S, identifier, is_ip) ==
    LET attempts == IF is_ip THEN S.ip_failed_attempts[identifier]
                    ELSE S.user_failed_attempts[identifier]
        cutoff_time == S.now - FAILED_LOGIN_WINDOW
        kept == SelectSeq(attempts, LAMBDA t : t.timestamp > cutoff_time)
    IN  IF \E i \in 1..Len(attempts) : ~Comparable(attempts[i])
        THEN [S |-> S, over |-> FALSE, raised |-> TRUE]
        ELSE [S |-> IF is_ip THEN [S EXCEPT !.ip_failed_attempts[identifier] = kept]
                    ELSE [S EXCEPT !.user_failed_attempts[identifier] = kept],
              over |-> Len(kept) >= MAX_FAILED_ATTEMPTS,
              raised |-> FALSE]

\* a log_failed_login that blocks the address at five failures
log_failed_login_blocking_ip(S, username, ip, password) ==
    LET S1 == [S EXCEPT !.ip_failed_attempts[ip] = Append(@, Datetime(S.now)),
                        !.user_failed_attempts[username] =
                            Append(@, FailureDict(S.now, password, username))]
        by_ip == check_failed_login_attempts(S1, ip, TRUE)
        S2 == IF by_ip.over
              THEN block_ip(log_attack(by_ip.S, ip, "brute_force", "high", username),
                            ip, username)
              ELSE by_ip.S
        by_user == check_failed_login_attempts(S2, username, FALSE)
    IN  IF by_ip.raised THEN [S |-> S1, raised |-> TRUE]
        ELSE IF by_user.raised THEN [S |-> S2, raised |-> TRUE]
        ELSE IF by_user.over
        THEN [S |-> block_user(by_user.S, username, ip), raised |-> FALSE]
        ELSE [S |-> by_user.S, raised |-> FALSE]

\* the state after the call and whether it ended in an exception
log_failed_login(S, username, ip, password) ==
    LET S1 == [S EXCEPT !.ip_failed_attempts[ip] = Append(@, Datetime(S.now)),
                        !.user_failed_attempts[username] =
                            Append(@, FailureDict(S.now, password, username))]
        by_ip == check_failed_login_attempts(S1, ip, TRUE)
        S2 == IF by_ip.over
              THEN log_attack(by_ip.S, ip, "brute_force", "high", username)
              ELSE by_ip.S
        by_user == check_failed_login_attempts(S2, username, FALSE)
    IN  IF by_ip.raised THEN [S |-> S1, raised |-> TRUE]
        ELSE IF by_user.raised THEN [S |-> S2, raised |-> TRUE]
        ELSE IF by_user.over
        THEN [S |-> block_user(by_user.S, username, ip), raised |-> FALSE]
        ELSE [S |-> by_user.S, raised |-> FALSE]

\* a log_successful_login that leaves the failures of the user on record
log_successful_login_keeps_user(S, username, ip) ==
    [S EXCEPT !.ip_failed_attempts[ip] = <<>>]

\* a log_successful_login that lifts the block of the user
log_successful_login_forgiving(S, username, ip) ==
    [S EXCEPT !.user_failed_attempts[username] = <<>>,
              !.ip_failed_attempts[ip] = <<>>,
              !.blocked_users = @ \ {username}]

log_successful_login(S, username, ip) ==
    [S EXCEPT !.user_failed_attempts[username] = <<>>,
              !.ip_failed_attempts[ip] = <<>>]

---------------------------------------------------------------------------
(* Activity of logged-in users.                                            *)

\* a log_user_activity that blocks at the threshold, not past it
log_user_activity_at_threshold(S, username, ip) ==
    LET activity == [timestamp |-> S.now]
        S1 == [S EXCEPT !.user_activities[username] = Append(@, activity),
                        !.ip_activities[ip] = Append(@, activity)]
        recent_activities == Recent(S1.user_activities[username], S1.now, ACTIVITY_WINDOW)
    IN  IF Len(recent_activities) >= SUSPICIOUS_ACTIVITY_COUNT
        THEN block_user(log_attack(S1, ip, "suspicious_activity", "medium", None),
                        username, ip)
        ELSE S1

log_user_activity(S, username, ip) ==
    LET activity == [timestamp |-> S.now]
        S1 == [S EXCEPT !.user_activities[username] = Append(@, activity),
                        !.ip_activities[ip] = Append(@, activity)]
        recent_activities == Recent(S1.user_activities[username], S1.now, ACTIVITY_WINDOW)
    IN  IF Len(recent_activities) > SUSPICIOUS_ACTIVITY_COUNT
        THEN block_user(log_attack(S1, ip, "suspicious_activity", "medium", None),
                        username, ip)
        ELSE S1

---------------------------------------------------------------------------
(* The unblock routes of the dashboard.                                    *)

\* collection.update_one({..., 'status': 'active'}, {'$set': {'status':
\* 'unblocked'}}) when the filter matches the record match of the collection
update_one(collection, match) ==
    (collection (-) SetToBag({match})) (+) SetToBag({[match EXCEPT !.status = "unblocked"]})

\* the records of the collection that a filter on this field and on status
\* 'active' matches; a record has only the fields it was inserted with
Matching(collection, field, value) ==
    {r \in BagToSet(collection) :
        /\ field \in DOMAIN r
        /\ r[field] = value
        /\ r.status = "active"}

\* the record update_one changes: some matching one, or none when none matches
NoMatch == [ip |-> None, email |-> None, status |-> None]
Candidates(collection, field, value) ==
    IF Matching(collection, field, value) = {} THEN {NoMatch}
    ELSE Matching(collection, field, value)

\* an unblock_ip that also forgets the failures of the address
unblock_ip_resetting(S, ip, match) ==
    LET S1 == [S EXCEPT !.blocked_ips = @ \ {ip}, !.ip_failed_attempts[ip] = <<>>]
    IN  IF ~S.db_connected \/ S.db_failing THEN [S |-> S1, status |-> 500]
        ELSE IF match = NoMatch THEN [S |-> S1, status |-> 200]
        ELSE [S |-> [S1 EXCEPT !.db_blocked_ips = update_one(@, match)], status |-> 200]

\* POST /api/security/unblock-ip/<ip>: the body of the route
unblock_ip(S, ip, match) ==
    LET S1 == [S EXCEPT !.blocked_ips = @ \ {ip}]
    IN  IF ~S.db_connected \/ S.db_failing THEN [S |-> S1, status |-> 500]
        ELSE IF match = NoMatch THEN [S |-> S1, status |-> 200]
        ELSE [S |-> [S1 EXCEPT !.db_blocked_ips = update_one(@, match)], status |-> 200]

\* an unblock_user that also forgets the addresses the user was blocked from
unblock_user_forgetting(S, username, match) ==
    LET S1 == [S EXCEPT !.blocked_users = @ \ {username},
                        !.blocked_users_per_ip = [ip \in DOMAIN @ |-> @[ip] \ {username}]]
    IN  IF ~S.db_connected \/ S.db_failing THEN [S |-> S1, status |-> 500]
        ELSE IF match = NoMatch THEN [S |-> S1, status |-> 200]
        ELSE [S |-> [S1 EXCEPT !.db_blocked_users = update_one(@, match)], status |-> 200]

\* POST /api/security/unblock-user/<username>: the body of the route
unblock_user(S, username, match) ==
    LET S1 == [S EXCEPT !.blocked_users = @ \ {username}]
    IN  IF ~S.db_connected \/ S.db_failing THEN [S |-> S1, status |-> 500]
        ELSE IF match = NoMatch THEN [S |-> S1, status |-> 200]
        ELSE [S |-> [S1 EXCEPT !.db_blocked_users = update_one(@, match)], status |-> 200]

---------------------------------------------------------------------------
(* The actions.                                                            *)

\* the state after construction, with the store found (connected) or not
InitWith(connected) ==
    /\ now = 0
    /\ ip_failed_attempts = [ip \in IPs |-> <<>>]
    /\ user_failed_attempts = [u \in Users |-> <<>>]
    /\ blocked_ips = {}
    /\ blocked_users = {}
    /\ user_activities = [u \in Users |-> <<>>]
    /\ ip_activities = [ip \in IPs |-> <<>>]
    /\ blocked_users_per_ip = [ip \in IPs |-> {}]
    /\ db_connected = connected
    /\ db_web_attacks = EmptyBag
    /\ db_blocked_ips = EmptyBag
    /\ db_blocked_users = EmptyBag
    /\ db_failing = FALSE
    /\ workers = [w \in Workers |-> Idle]
    /\ since_unblock = [u \in Users |-> [unblocked |-> FALSE, failures |-> 0]]
    /\ last = Call("init", None, None, None, 0, FALSE, 0)
    /\ active_sessions = <<>>
    /\ session_commands = <<>>
    /\ session_auth_attempts = <<>>
    /\ brute_force_attacks = EmptyBag
    /\ shell_interactions = EmptyBag
    /\ processed = [eventid |-> "none", session |-> None, raised |-> FALSE,
                    failed |-> 0, tracked |-> FALSE]

Init == InitWith(TRUE)

\* the before_request hook: one request from ip runs check_request
SecurityCheck(ip, name) ==
    LET res == check_request(State, ip, name)
    IN  Commit(res.S, Call("check_request", ip, None, name, res.status,
                           res.status = 500, 0))

\* the login route reports a failed login: log_failed_login(email, ip)
LogFailedLogin(username, ip) ==
    LET res == log_failed_login(State, username, ip, None)
    IN  Commit(res.S, Call("log_failed_login", ip, username, None, 0, res.raised,
                           Len(user_failed_attempts[username])))

\* the login route reports a successful login
LogSuccessfulLogin(username, ip) ==
    Commit(log_successful_login(State, username, ip),
           Call("log_successful_login", ip, username, None, 0, FALSE,
                Len(user_failed_attempts[username])))

\* a route of the shop reports what a logged-in user did
LogUserActivity(username, ip) ==
    Commit(log_user_activity(State, username, ip),
           Call("log_user_activity", ip, username, None, 0, FALSE, 0))

\* block_user(email, reason, ip=ip); ip is None when the caller gives none
BlockUser(email, ip) ==
    Commit(block_user(State, email, ip), Call("block_user", ip, email, None, 0, FALSE, 0))

\* block_ip(ip, reason)
BlockIp(ip) ==
    Commit(block_ip(State, ip, None), Call("block_ip", ip, None, None, 0, FALSE, 0))

\* the unblock-ip route, called from the address caller with no payload; the
\* request passes check_request twice before the body of the route runs, in the
\* before_request hook and in the decorator require_security_check, and a status
\* other than 0 of either is the answer of the route
UnblockIp(caller, ip) ==
    \E hook \in {check_request(State, caller, "empty")} :
    \E gate \in {IF hook.status # 0 THEN hook ELSE check_request(hook.S, caller, "empty")} :
    \E match \in Candidates(gate.S.db_blocked_ips, "ip", ip) :
    \E res \in {IF gate.status # 0 THEN gate ELSE unblock_ip(gate.S, ip, match)} :
        Commit(res.S, Call("unblock_ip", ip, None, "empty", res.status, FALSE, 0))

\* the unblock-user route, called likewise
UnblockUser(caller, username) ==
    \E hook \in {check_request(State, caller, "empty")} :
    \E gate \in {IF hook.status # 0 THEN hook ELSE check_request(hook.S, caller, "empty")} :
    \E match \in Candidates(gate.S.db_blocked_users, "username", username) :
    \E res \in {IF gate.status # 0 THEN gate ELSE unblock_user(gate.S, username, match)} :
        Commit(res.S, Call("unblock_user", None, username, "empty", res.status, FALSE,
                           Len(user_failed_attempts[username])))

\* POST /api/ecommerce/auth/login from ip with the body of the request name; the
\* request passes check_request in the before_request hook, then the route tests
\* the two blocks, and reports a failure (unknown email or wrong password) or a
\* success followed by the activity 'login'.  An exception of log_failed_login
\* is caught by nobody: the answer is 500
Login(ip, name, credentials_ok) ==
    \E hook \in {check_request(State, ip, name)} :
    \E email \in {Scanned[name].email} :
    \E failed \in {log_failed_login(hook.S, email, ip, None)} :
    \E res \in {IF hook.status # 0 THEN hook
                ELSE IF is_user_blocked(hook.S, email) \/ is_ip_blocked(hook.S, ip)
                THEN [S |-> hook.S, status |-> 403]
                ELSE IF ~credentials_ok
                THEN [S |-> failed.S, status |-> IF failed.raised THEN 500 ELSE 401]
                ELSE [S |-> log_user_activity(log_successful_login(hook.S, email, ip),
                                              email, ip),
                      status |-> 200]} :
        Commit(res.S, Call("login", ip, email, name, res.status, res.status = 500,
                           Len(user_failed_attempts[email])))

\* one step of the call in flight in thread w: the state becomes S and the thread
\* goes on as rec
Step(S, w, rec) ==
    /\ Assign(S)
    /\ workers' = [workers EXCEPT ![w] = rec]
    /\ UNCHANGED <<since_unblock, last>>
    /\ UNCHANGED cowrie_vars

\* the call in flight in thread w returns or raises: l is the record of the call
Return(S, w, l) ==
    /\ Assign(S)
    /\ workers' = [workers EXCEPT ![w] = [Idle EXCEPT !.calls = workers[w].calls + 1]]
    /\ since_unblock' = Tracked(l)
    /\ last' = l
    /\ UNCHANGED cowrie_vars

\* log_failed_login(username, ip) in thread w, step by step.  First step:
\* ip_failed_attempts[ip].append(timestamp)
FailAppendIp(w, username, ip) ==
    /\ workers[w].pc = "idle"
    /\ Step([State EXCEPT !.ip_failed_attempts[ip] = Append(@, Datetime(now))],
            w, [workers[w] EXCEPT !.pc = "append_user", !.user = username, !.ip = ip])

\* user_failed_attempts[username].append({...})
FailAppendUser(w) ==
    /\ workers[w].pc = "append_user"
    /\ Step([State EXCEPT !.user_failed_attempts[workers[w].user] =
                              Append(@, FailureDict(now, None, workers[w].user))],
            w, [workers[w] EXCEPT !.pc = "read_ip"])

\* check_failed_login_attempts(ip): the thread reads the list of the address and
\* builds the pruned list
FailReadIp(w) ==
    /\ workers[w].pc = "read_ip"
    /\ LET attempts == ip_failed_attempts[workers[w].ip]
       IN  IF \E i \in 1..Len(attempts) : ~Comparable(attempts[i])
           THEN Return(State, w, Call("log_failed_login", workers[w].ip, workers[w].user,
                                      None, 0, TRUE, 0))
           ELSE Step(State, w,
                     [workers[w] EXCEPT
                         !.pc = "write_ip",
                         !.kept = SelectSeq(attempts,
                                      LAMBDA t : t.timestamp > now - FAILED_LOGIN_WINDOW)])

\* check_failed_login_attempts(ip): the thread stores the pruned list, and
\* log_failed_login logs the brute_force attack when the list has 5 entries
FailWriteIp(w) ==
    /\ workers[w].pc = "write_ip"
    /\ LET me == workers[w]
           S1 == [State EXCEPT !.ip_failed_attempts[me.ip] = me.kept]
       IN  Step(IF Len(me.kept) >= MAX_FAILED_ATTEMPTS
                THEN log_attack(S1, me.ip, "brute_force", "high", me.user)
                ELSE S1,
                w, [me EXCEPT !.pc = "check_user", !.kept = <<>>])

\* check_failed_login_attempts(username, is_ip=False) and what follows it
FailCheckUser(w) ==
    /\ workers[w].pc = "check_user"
    /\ LET me == workers[w]
           by_user == check_failed_login_attempts(State, me.user, FALSE)
       IN  Return(IF by_user.raised THEN State
                  ELSE IF by_user.over THEN block_user(by_user.S, me.user, me.ip)
                  ELSE by_user.S,
                  w, Call("log_failed_login", me.ip, me.user, None, 0, by_user.raised, 0))

\* a threshold test that passes only above 3 blocked users
threshold_passed_above(S, ip) ==
    Cardinality(S.blocked_users_per_ip[ip]) > MAX_BLOCKED_USERS_PER_IP

\* the test of block_user on the users blocked from the address
threshold_reached(S, ip) ==
    Cardinality(S.blocked_users_per_ip[ip]) >= MAX_BLOCKED_USERS_PER_IP

\* block_user(email, reason, ip=ip) in thread w, step by step.  First step:
\* blocked_users.add(email)
BlockAddUser(w, email, ip) ==
    /\ workers[w].pc = "idle"
    /\ Step([State EXCEPT !.blocked_users = @ \cup {email}],
            w, [workers[w] EXCEPT !.pc = "add_per_ip", !.user = email, !.ip = ip])

\* blocked_users_per_ip[ip].add(email)
BlockAddPerIp(w) ==
    /\ workers[w].pc = "add_per_ip"
    /\ Step([State EXCEPT !.blocked_users_per_ip[workers[w].ip] = @ \cup {workers[w].user}],
            w, [workers[w] EXCEPT !.pc = "test"])

\* if len(blocked_users_per_ip[ip]) >= MAX_BLOCKED_USERS_PER_IP
BlockTest(w) ==
    /\ workers[w].pc = "test"
    /\ Step(State, w,
            [workers[w] EXCEPT !.pc = IF threshold_reached(State, workers[w].ip)
                                      THEN "block_ip" ELSE "record"])

\* self.block_ip(ip, ..., email=email)
BlockEscalate(w) ==
    /\ workers[w].pc = "block_ip"
    /\ Step(block_ip(State, workers[w].ip, workers[w].user), w,
            [workers[w] EXCEPT !.pc = "record"])

\* the durable record of the user, and the return of block_user
BlockRecord(w) ==
    /\ workers[w].pc = "record"
    /\ LET me == workers[w]
       IN  Return([State EXCEPT !.db_blocked_users =
                       insert_one(State, @, [email |-> me.user, ip |-> me.ip,
                                             expires_at |-> now + BLOCK_DURATION_SECONDS,
                                             status |-> "active"])],
                  w, Call("block_user", me.ip, me.user, None, 0, FALSE, 0))

\* check_request in thread w for a request of ip with no payload, step by step.
\* First step: the whitelist, the block check and the count of the recent
\* requests; past the threshold the address is blocked and the call returns 429
GateCount(w, ip) ==
    /\ workers[w].pc = "idle"
    /\ LET recent_requests == Recent(ip_activities[ip], now, RATE_LIMIT_WINDOW)
           Answer(S, status) ==
               Return(S, w, Call("check_request", ip, None, "empty", status, FALSE, 0))
       IN  IF \/ ip \in {"127.0.0.1", "localhost", "::1"}
              \/ StartsWith(ip, "10.")
              \/ StartsWith(ip, "172.")
           THEN Answer(State, 0)
           ELSE IF is_ip_blocked(State, ip)
           THEN Answer(State, 403)
           ELSE IF Len(recent_requests) > MAX_REQUESTS_PER_MINUTE
           THEN Answer(block_ip(State, ip, None), 429)
           ELSE Step(State, w, [workers[w] EXCEPT !.pc = "gate_record", !.ip = ip])

\* the detectors find nothing in the empty payload: the thread appends the
\* request to ip_activities[ip] and the call returns None
GateRecord(w) ==
    /\ workers[w].pc = "gate_record"
    /\ LET me == workers[w]
       IN  Return([State EXCEPT !.ip_activities[me.ip] = Append(@, [timestamp |-> now])],
                  w, Call("check_request", me.ip, None, "empty", 0, FALSE, 0))

\* the store becomes unreachable, or reachable again
StoreFlips ==
    /\ db_connected
    /\ db_failing' = ~db_failing
    /\ UNCHANGED <<now, ip_failed_attempts, user_failed_attempts, blocked_ips,
                   blocked_users, user_activities, ip_activities, blocked_users_per_ip,
                   db_connected, db_web_attacks, db_blocked_ips, db_blocked_users,
                   workers, since_unblock, last>>
    /\ UNCHANGED cowrie_vars

\* a clock that takes an address off blocked_ips once every record of the
\* address has expired
Tick_lifting_expired(d, limit) ==
    /\ now + d <= limit
    /\ now' = now + d
    /\ blocked_ips' = {ip \in blocked_ips :
                          \E r \in BagToSet(db_blocked_ips) :
                              r.ip = ip /\ r.expires_at > now + d}
    /\ UNCHANGED <<ip_failed_attempts, user_failed_attempts, blocked_users,
                   user_activities, ip_activities, blocked_users_per_ip, db_connected,
                   db_web_attacks, db_blocked_ips, db_blocked_users, db_failing,
                   workers, since_unblock, last>>
    /\ UNCHANGED cowrie_vars

\* time passes
Tick(d, limit) ==
    /\ now + d <= limit
    /\ now' = now + d
    /\ UNCHANGED <<ip_failed_attempts, user_failed_attempts, blocked_ips, blocked_users,
                   user_activities, ip_activities, blocked_users_per_ip, db_connected,
                   db_web_attacks, db_blocked_ips, db_blocked_users, db_failing,
                   workers, since_unblock, last>>
    /\ UNCHANGED cowrie_vars

---------------------------------------------------------------------------
(* The request gate under requests of every kind from every address.       *)

\* requests recorded per address, and clock steps of half a rate window
MaxActivities == 2
MaxTicks == 2
GateStep == RATE_LIMIT_WINDOW \div 2

Next ==
    \/ \E ip \in IPs, name \in RequestNames :
          Len(ip_activities[ip]) < MaxActivities /\ SecurityCheck(ip, name)
    \/ Tick(GateStep, MaxTicks * GateStep)

Spec == Init /\ [][Next]_vars

---------------------------------------------------------------------------
(* One address sending requests with no payload, up to the rate threshold   *)
(* and past it.                                                            *)

\* requests recorded past the threshold, and clock steps
RateSlack == 1
MaxRateTicks == 1

NextRate ==
    \/ /\ Len(ip_activities[PUBLIC]) <= MAX_REQUESTS_PER_MINUTE + RateSlack
       /\ SecurityCheck(PUBLIC, "empty")
    \/ Tick(GateStep, MaxRateTicks * GateStep)

SpecRate == Init /\ [][NextRate]_vars

---------------------------------------------------------------------------
(* Failed and successful logins of two users from one address.             *)

LoginUsers == {"alice", "bob"}
LoginIPs == {PUBLIC}

\* failures on record per user and per address, attack records written, and
\* clock steps of five and a half minutes
MaxFailures == 5
MaxAttackRecords == 1
MaxLoginTicks == 2
LoginStep == (FAILED_LOGIN_WINDOW * 11) \div 20

NextLogin ==
    \/ \E u \in LoginUsers, ip \in LoginIPs :
          /\ Len(user_failed_attempts[u]) < MaxFailures
          /\ Len(ip_failed_attempts[ip]) < MaxFailures
          /\ BagCardinality(db_web_attacks) < MaxAttackRecords
          /\ LogFailedLogin(u, ip)
    \/ \E u \in LoginUsers, ip \in LoginIPs : LogSuccessfulLogin(u, ip)
    \/ Tick(LoginStep, MaxLoginTicks * LoginStep)

SpecLogin == Init /\ [][NextLogin]_vars

---------------------------------------------------------------------------
(* Users and addresses blocked one call at a time.                         *)

BlockIPs == {PRIVATE_10, PUBLIC}

\* durable block records written per collection
MaxUserRecords == 4
MaxIpRecords == 2

NextBlock ==
    \/ \E email \in Users, ip \in BlockIPs \cup {None} :
          /\ BagCardinality(db_blocked_users) < MaxUserRecords
          /\ BlockUser(email, ip)
    \/ \E ip \in BlockIPs :
          /\ BagCardinality(db_blocked_ips) < MaxIpRecords
          /\ BlockIp(ip)

SpecBlock == Init /\ [][NextBlock]_vars

---------------------------------------------------------------------------
(* Logged-in users active from one address of the private network.         *)

\* activities on record per user beyond the burst threshold; the burst and the
\* requests of the address all fall within one instant of the clock
BurstSlack == 0

NextBurst ==
    \/ \E u \in Users :
          /\ Len(user_activities[u]) <= SUSPICIOUS_ACTIVITY_COUNT + BurstSlack
          /\ LogUserActivity(u, PRIVATE_10)
    \/ \E name \in {"empty", "query_search"} : SecurityCheck(PRIVATE_10, name)

SpecBurst == Init /\ [][NextBurst]_vars

---------------------------------------------------------------------------
(* Failed logins of users that the dashboard unblocks.                     *)

\* failures on record per user, all within one instant of the clock; the
\* dashboard runs on the host of the server
MaxRefailures == 10

NextRelogin ==
    \/ \E u \in LoginUsers :
          /\ Len(user_failed_attempts[u]) < MaxRefailures
          /\ LogFailedLogin(u, PUBLIC)
    \/ \E u \in LoginUsers : UnblockUser(LOOPBACK, u)

SpecRelogin == Init /\ [][NextRelogin]_vars

---------------------------------------------------------------------------
(* Blocks made one call at a time and taken back from the dashboard.       *)

\* the addresses the dashboard is called from, the requests on record per
\* calling address, and the durable block records per collection
Callers == {LOOPBACK, PUBLIC}
MaxCallerActivities == 2
MaxUnblockRecords == 2

NextUnblock ==
    \/ \E email \in LoginUsers, ip \in {PUBLIC, None} :
          /\ BagCardinality(db_blocked_users) < MaxUnblockRecords
          /\ BlockUser(email, ip)
    \/ /\ BagCardinality(db_blocked_ips) < MaxUnblockRecords
       /\ BlockIp(PUBLIC)
    \/ \E caller \in Callers :
          /\ Len(ip_activities[caller]) < MaxCallerActivities
          /\ UnblockIp(caller, PUBLIC)
    \/ \E caller \in Callers, u \in LoginUsers :
          /\ Len(ip_activities[caller]) < MaxCallerActivities
          /\ UnblockUser(caller, u)

SpecUnblock == Init /\ [][NextUnblock]_vars

---------------------------------------------------------------------------
(* Failed logins of one user from one address in two threads.              *)

RaceWorkers == {"w1", "w2"}

\* calls per thread, all within one instant of the clock
MaxRaceCalls == 2

NextRace ==
    \/ \E w \in RaceWorkers :
          /\ workers[w].calls < MaxRaceCalls
          /\ FailAppendIp(w, "alice", PUBLIC)
    \/ \E w \in RaceWorkers : FailAppendUser(w)
    \/ \E w \in RaceWorkers : FailReadIp(w)
    \/ \E w \in RaceWorkers : FailWriteIp(w)
    \/ \E w \in RaceWorkers : FailCheckUser(w)

SpecRace == Init /\ [][NextRace]_vars

---------------------------------------------------------------------------
(* Users of one address blocked in three threads.                          *)

\* calls per thread
MaxBlockCalls == 1

NextBlockRace ==
    \/ \E w \in Workers, email \in Users :
          /\ workers[w].calls < MaxBlockCalls
          /\ BlockAddUser(w, email, PUBLIC)
    \/ \E w \in Workers : BlockAddPerIp(w)
    \/ \E w \in Workers : BlockTest(w)
    \/ \E w \in Workers : BlockEscalate(w)
    \/ \E w \in Workers : BlockRecord(w)

SpecBlockRace == Init /\ [][NextBlockRace]_vars

---------------------------------------------------------------------------
(* Requests checked with a store that is absent or becomes unreachable.    *)

InitOutage == \E connected \in BOOLEAN : InitWith(connected)

\* requests on record per address
MaxOutageActivities == 1

NextOutage ==
    \/ \E ip \in IPs, name \in RequestNames :
          /\ Len(ip_activities[ip]) < MaxOutageActivities
          /\ SecurityCheck(ip, name)
    \/ StoreFlips

SpecOutage == InitOutage /\ [][NextOutage]_vars

---------------------------------------------------------------------------
(* Requests of one address up to the rate threshold, past it, and once the *)
(* address is blocked.                                                     *)

NextDenied ==
    \E name \in RequestNames :
        /\ Len(ip_activities[PUBLIC]) <= MAX_REQUESTS_PER_MINUTE + RateSlack
        /\ SecurityCheck(PUBLIC, name)

SpecDenied == Init /\ [][NextDenied]_vars

---------------------------------------------------------------------------
(* Requests of exempted addresses, one of them the address of a logged-in  *)
(* user whose activity goes past the rate threshold.                       *)

ExemptedIPs == {LOOPBACK, PRIVATE_10, OUTSIDE_172}

NextExempted ==
    \/ /\ Len(ip_activities[PRIVATE_10]) <= MAX_REQUESTS_PER_MINUTE + RateSlack
       /\ LogUserActivity("alice", PRIVATE_10)
    \/ \E ip \in ExemptedIPs, name \in RequestNames : SecurityCheck(ip, name)

SpecExempted == Init /\ [][NextExempted]_vars

---------------------------------------------------------------------------
(* Logins of one user through the login route, from an exempted address    *)
(* and from an address of the internet.                                    *)

RouteIPs == {PRIVATE_10, PUBLIC}

\* attack records in web_attacks
MaxRouteRecords == 2

NextLoginRoute ==
    \/ \E ip \in RouteIPs, credentials_ok \in BOOLEAN :
          /\ Len(user_failed_attempts["alice"]) < MaxFailures
          /\ \/ "alice" \in blocked_users
             \/ Len(user_activities["alice"]) <= SUSPICIOUS_ACTIVITY_COUNT + BurstSlack
          /\ BagCardinality(db_web_attacks) < MaxRouteRecords
          /\ Login(ip, "json_login", credentials_ok)
    \/ Tick(LoginStep, MaxLoginTicks * LoginStep)

SpecLoginRoute == Init /\ [][NextLoginRoute]_vars

---------------------------------------------------------------------------
(* The life of a block: users and an address are blocked, requests, logins *)
(* and activity go on, the blocks outlive their expiry time, and the       *)
(* dashboard takes them back.                                              *)

\* durable block records per collection, and clock steps of one block duration
\* and a second; a list of failures or activities holds one entry at most
MaxLifeRecords == 1
MaxLifeTicks == 1
LifeStep == BLOCK_DURATION_SECONDS + 1

NextLifetime ==
    \/ \E email \in LoginUsers :
          /\ BagCardinality(db_blocked_users) < MaxLifeRecords
          /\ BlockUser(email, PUBLIC)
    \/ \E name \in {"empty", "query_tautology"} :
          /\ ip_activities[PUBLIC] = <<>>
          /\ PUBLIC \in blocked_ips \/ BagCardinality(db_blocked_ips) < MaxLifeRecords
          /\ SecurityCheck(PUBLIC, name)
    \/ /\ user_failed_attempts["alice"] = <<>>
       /\ LogFailedLogin("alice", PUBLIC)
    \/ LogSuccessfulLogin("alice", PUBLIC)
    \/ /\ ip_activities[PUBLIC] = <<>>
       /\ LogUserActivity("alice", PUBLIC)
    \/ UnblockIp(LOOPBACK, PUBLIC)
    \/ \E u \in LoginUsers : UnblockUser(LOOPBACK, u)
    \/ Tick(LifeStep, MaxLifeTicks * LifeStep)

SpecLifetime == Init /\ [][NextLifetime]_vars

---------------------------------------------------------------------------
(* Two users of one address: bursts of activity, logins, and blocks taken  *)
(* back from the dashboard.                                                *)

NextPerIp ==
    \/ \E u \in LoginUsers :
          /\ Len(user_activities[u]) <= SUSPICIOUS_ACTIVITY_COUNT + BurstSlack
          /\ LogUserActivity(u, PUBLIC)
    \/ /\ user_failed_attempts["alice"] = <<>>
       /\ LogFailedLogin("alice", PUBLIC)
    \/ LogSuccessfulLogin("alice", PUBLIC)
    \/ UnblockIp(LOOPBACK, PUBLIC)
    \/ \E u \in LoginUsers : UnblockUser(LOOPBACK, u)

SpecPerIp == Init /\ [][NextPerIp]_vars

---------------------------------------------------------------------------
(* The actions of one user while the clock moves through the activity      *)
(* window and past it.                                                     *)

\* actions on record past the threshold, and clock steps of half a window
WindowSlack == 1
MaxWindowTicks == 2
WindowStep == ACTIVITY_WINDOW \div 2

NextWindow ==
    \/ /\ Len(user_activities["alice"]) <= SUSPICIOUS_ACTIVITY_COUNT + WindowSlack
       /\ LogUserActivity("alice", PRIVATE_10)
    \/ Tick(WindowStep, MaxWindowTicks * WindowStep)

SpecWindow == Init /\ [][NextWindow]_vars

---------------------------------------------------------------------------
(* Requests of one address handled by two threads, next to requests        *)
(* handled one after the other.                                            *)

NextRateRace ==
    \/ /\ Len(ip_activities[PUBLIC]) <= MAX_REQUESTS_PER_MINUTE + RateSlack
       /\ SecurityCheck(PUBLIC, "empty")
    \/ \E w \in RaceWorkers :
          /\ workers[w].calls < MaxRaceCalls
          /\ GateCount(w, PUBLIC)
    \/ \E w \in RaceWorkers : GateRecord(w)

SpecRateRace == Init /\ [][NextRateRace]_vars

---------------------------------------------------------------------------
(* Failed logins of one user from one address in two threads, and          *)
(* successful logins of the user from the address in between their steps.  *)

NextClearRace ==
    \/ \E w \in RaceWorkers :
          /\ workers[w].calls < MaxRaceCalls
          /\ FailAppendIp(w, "alice", PUBLIC)
    \/ \E w \in RaceWorkers : FailAppendUser(w)
    \/ \E w \in RaceWorkers : FailReadIp(w)
    \/ \E w \in RaceWorkers : FailWriteIp(w)
    \/ \E w \in RaceWorkers : FailCheckUser(w)
    \/ LogSuccessfulLogin("alice", PUBLIC)

SpecClearRace == Init /\ [][NextClearRace]_vars

---------------------------------------------------------------------------
(* The Cowrie log forwarder: the events of the honeypot's log, processed   *)
(* one at a time by process_event.  The store takes every write.  Of a     *)
(* login attempt the model keeps whether it succeeded, of a command its    *)
(* text, of a session its address, of the records written their session   *)
(* and their counts.                                                       *)

\* a dict with the key k set to v, and with the key k deleted
With(d, k, v) == [x \in DOMAIN d \cup {k} |-> IF x = k THEN v ELSE d[x]]
Without(d, k) == [x \in DOMAIN d \ {k} |-> d[x]]

\* defaultdict(list): reading the key k creates it with an empty list
Touched(d, k) == IF k \in DOMAIN d THEN d ELSE With(d, k, <<>>)

CowrieState ==
    [active_sessions |-> active_sessions,
     session_commands |-> session_commands,
     session_auth_attempts |-> session_auth_attempts,
     brute_force_attacks |-> brute_force_attacks,
     shell_interactions |-> shell_interactions]

\* the failed attempts of a list of login attempts
FailedOf(attempts) == SelectSeq(attempts, LAMBDA a : ~a.success)

handle_session_connect(C, event) ==
    [C EXCEPT !.active_sessions = With(@, event.session, [src_ip |-> event.src_ip])]

handle_login_attempt(C, event) ==
    LET auth_data == [success |-> event.eventid = "cowrie.login.success"]
    IN  [C EXCEPT !.session_auth_attempts =
                      With(@, event.session,
                           Append(Touched(@, event.session)[event.session], auth_data))]

handle_command(C, event) ==
    [C EXCEPT !.session_commands =
                  With(@, event.session,
                       Append(Touched(@, event.session)[event.session], event.input))]

\* a handle_session_closed that counts every login attempt of the session
handle_session_closed_counting_all(C, event) ==
    LET session_id == event.session
        auth == Touched(C.session_auth_attempts, session_id)
        failed_attempts == auth[session_id]
        successful_login == \E i \in 1..Len(auth[session_id]) : auth[session_id][i].success
        cmds == IF successful_login THEN Touched(C.session_commands, session_id)
                ELSE C.session_commands
    IN  IF session_id \notin DOMAIN C.active_sessions THEN [C |-> C, raised |-> FALSE]
        ELSE [C |-> [active_sessions |-> Without(C.active_sessions, session_id),
                     session_auth_attempts |-> Without(auth, session_id),
                     session_commands |-> Without(cmds, session_id),
                     brute_force_attacks |->
                         IF Len(failed_attempts) >= 3
                         THEN C.brute_force_attacks
                              (+) SetToBag({[attack_id |-> session_id,
                                             attempts |-> Len(failed_attempts)]})
                         ELSE C.brute_force_attacks,
                     shell_interactions |->
                         IF successful_login /\ Len(cmds[session_id]) > 0
                         THEN C.shell_interactions
                              (+) SetToBag({[attack_id |-> session_id,
                                             num_commands |-> Len(cmds[session_id])]})
                         ELSE C.shell_interactions],
              raised |-> session_id \notin DOMAIN cmds]

\* a handle_session_closed that leaves the login attempts of the session
handle_session_closed_keeping_attempts(C, event) ==
    LET session_id == event.session
        auth == Touched(C.session_auth_attempts, session_id)
    IN  IF session_id \notin DOMAIN C.active_sessions THEN [C |-> C, raised |-> FALSE]
        ELSE [C |-> [C EXCEPT !.active_sessions = Without(@, session_id),
                              !.session_auth_attempts = auth,
                              !.session_commands = Without(@, session_id)],
              raised |-> FALSE]

\* the session is closed: the brute force record when 3 or more attempts failed,
\* the shell record when a login succeeded and commands were run, then the
\* cleanup.  session_auth_attempts[session_id] is read in every case, which
\* creates the key; session_commands[session_id] is read only after a successful
\* login, so the last del raises KeyError for a session with no successful login
\* and no command, after the other two keys are deleted
handle_session_closed(C, event) ==
    LET session_id == event.session
        auth == Touched(C.session_auth_attempts, session_id)
        failed_attempts == FailedOf(auth[session_id])
        successful_login == \E i \in 1..Len(auth[session_id]) : auth[session_id][i].success
        cmds == IF successful_login THEN Touched(C.session_commands, session_id)
                ELSE C.session_commands
    IN  IF session_id \notin DOMAIN C.active_sessions THEN [C |-> C, raised |-> FALSE]
        ELSE [C |-> [active_sessions |-> Without(C.active_sessions, session_id),
                     session_auth_attempts |-> Without(auth, session_id),
                     session_commands |-> Without(cmds, session_id),
                     brute_force_attacks |->
                         IF Len(failed_attempts) >= 3
                         THEN C.brute_force_attacks
                              (+) SetToBag({[attack_id |-> session_id,
                                             attempts |-> Len(failed_attempts)]})
                         ELSE C.brute_force_attacks,
                     shell_interactions |->
                         IF successful_login /\ Len(cmds[session_id]) > 0
                         THEN C.shell_interactions
                              (+) SetToBag({[attack_id |-> session_id,
                                             num_commands |-> Len(cmds[session_id])]})
                         ELSE C.shell_interactions],
              raised |-> session_id \notin DOMAIN cmds]

\* EVENT_HANDLERS.get(event_id) and the call of the handler in try/except; a file
\* download touches none of the tracking state, an unknown event is ignored
process_event(C, event) ==
    CASE event.eventid = "cowrie.session.connect" ->
             [C |-> handle_session_connect(C, event), raised |-> FALSE]
      [] event.eventid \in {"cowrie.login.success", "cowrie.login.failed"} ->
             [C |-> handle_login_attempt(C, event), raised |-> FALSE]
      [] event.eventid = "cowrie.command.input" ->
             [C |-> handle_command(C, event), raised |-> FALSE]
      [] event.eventid = "cowrie.session.closed" -> handle_session_closed(C, event)
      [] OTHER -> [C |-> C, raised |-> FALSE]

\* the sessions of the log, and the kinds of event
Sessions == {"s1", "s2"}
EventIds == {"cowrie.session.connect", "cowrie.login.success", "cowrie.login.failed",
             "cowrie.command.input", "cowrie.session.file_download",
             "cowrie.session.closed", "cowrie.client.version"}
Event(eventid, session) ==
    [eventid |-> eventid, session |-> session, src_ip |-> PUBLIC, input |-> "uname -a"]

\* the web application's state, which the forwarder does not share
web_vars == <<now, ip_failed_attempts, user_failed_attempts, blocked_ips, blocked_users,
              user_activities, ip_activities, blocked_users_per_ip, db_connected,
              db_web_attacks, db_blocked_ips, db_blocked_users, db_failing, workers,
              since_unblock, last>>

\* the number of failed attempts on record for the session
FailedCount(session) ==
    IF session \in DOMAIN session_auth_attempts
    THEN Len(FailedOf(session_auth_attempts[session]))
    ELSE 0

\* one line of the log is read and processed
ProcessEvent(event) ==
    \E res \in {process_event(CowrieState, event)} :
        /\ active_sessions' = res.C.active_sessions
        /\ session_commands' = res.C.session_commands
        /\ session_auth_attempts' = res.C.session_auth_attempts
        /\ brute_force_attacks' = res.C.brute_force_attacks
        /\ shell_interactions' = res.C.shell_interactions
        /\ processed' = [eventid |-> event.eventid, session |-> event.session,
                         raised |-> res.raised, failed |-> FailedCount(event.session),
                         tracked |-> event.session \in DOMAIN active_sessions]
        /\ UNCHANGED web_vars

\* login attempts and commands on record per session, and records per collection
MaxSessionAttempts == 3
MaxSessionCommands == 1
MaxCowrieRecords == 1

\* the number of entries the dict holds for the key
Held(d, k) == IF k \in DOMAIN d THEN Len(d[k]) ELSE 0

\* the events of the session s1 are of every kind; of the session s2 the log
\* holds the connection and the close
NextCowrie ==
    \/ \E eventid \in EventIds :
          /\ eventid \in {"cowrie.login.success", "cowrie.login.failed"}
                 => Held(session_auth_attempts, "s1") < MaxSessionAttempts
          /\ eventid = "cowrie.command.input"
                 => Held(session_commands, "s1") < MaxSessionCommands
          /\ eventid = "cowrie.session.closed"
                 => /\ BagCardinality(brute_force_attacks) < MaxCowrieRecords
                    /\ BagCardinality(shell_interactions) < MaxCowrieRecords
          /\ ProcessEvent(Event(eventid, "s1"))
    \/ \E eventid \in {"cowrie.session.connect", "cowrie.session.closed"} :
          ProcessEvent(Event(eventid, "s2"))

SpecCowrie == Init /\ [][NextCowrie]_vars

---------------------------------------------------------------------------
(* Properties of the request gate.                                         *)

\* the addresses check_request lets through before any check
Exempted(ip) ==
    ip \in {"127.0.0.1", "localhost", "::1"} \/ StartsWith(ip, "10.") \/ StartsWith(ip, "172.")

\* ip is not exempted, not blocked and under the rate threshold: the request
\* reaches the payload checks
ReachesScan(ip) ==
    /\ ~Exempted(ip)
    /\ ip \notin blocked_ips
    /\ Len(Recent(ip_activities[ip], now, RATE_LIMIT_WINDOW)) <= MAX_REQUESTS_PER_MINUTE

\* the number of attack records of this type and address in web_attacks
AttackRecords(collection, attack_type, ip) ==
    LET recs == {a \in BagToSet(collection) : a.attack_type = attack_type /\ a.ip = ip}
        RECURSIVE Sum(_)
        Sum(R) == IF R = {} THEN 0
                  ELSE LET a == CHOOSE x \in R : TRUE
                       IN  CopiesIn(a, collection) + Sum(R \ {a})
    IN  Sum(recs)

\* the requests that carry the payload "1 OR 1=1" in the field that is scanned
TautologyRequests ==
    {"json_tautology", "form_tautology", "query_tautology", "text_tautology"}

NoSignature(t) ==
    /\ ~detect_sql_injection(t)
    /\ ~detect_xss(t)
    /\ ~detect_path_traversal(t)
    /\ ~detect_command_injection(t)

\* the requests whose field names and values hold no signature, the empty payload
\* among them
CleanRequests ==
    {name \in RequestNames :
        LET d == safe_get_request_data(RequestOf(name))
        IN  IF d.type = "dict"
            THEN \A i \in 1..Len(d.items) : NoSignature(d.items[i][1]) /\ NoSignature(d.items[i][2])
            ELSE NoSignature(d.s)}

\* C7: a request whose field names and values hold no signature, empty or not,
\* from an address that reaches the payload checks is allowed, is recorded in
\* ip_activities and does not block the address.
C7_CleanAllowed ==
    [][\A ip \in IPs, name \in CleanRequests :
          (SecurityCheck(ip, name) /\ ReachesScan(ip))
          => /\ last'.status = 0
             /\ Len(ip_activities'[ip]) = Len(ip_activities[ip]) + 1
             /\ ip \notin blocked_ips']_vars

\* the requests whose payload is <script>alert(1)</script>
ScriptRequests == {"query_script", "text_script"}

\* C8: a request whose payload is <script>alert(1)</script>, from an address that
\* reaches the payload checks, is answered 400 and its attack record has
\* attack_type xss.
C8_ScriptIsXss ==
    [][\A ip \in IPs, name \in ScriptRequests :
          (SecurityCheck(ip, name) /\ ReachesScan(ip))
          => /\ last'.status = 400
             /\ AttackRecords(db_web_attacks', "xss", ip)
                    = AttackRecords(db_web_attacks, "xss", ip) + 1]_vars

\* C5: of the requests one address sends within 60 seconds, the first 100 are not
\* rate-limited and the 101st is answered 429 and leaves the address in
\* blocked_ips.
C5_Request101Denied ==
    [][\A ip \in IPs, name \in RequestNames :
          (SecurityCheck(ip, name) /\ ~Exempted(ip) /\ ip \notin blocked_ips)
          => LET earlier == Len(Recent(ip_activities[ip], now, RATE_LIMIT_WINDOW))
             IN  /\ earlier < MAX_REQUESTS_PER_MINUTE => last'.status # 429
                 /\ earlier = MAX_REQUESTS_PER_MINUTE
                        => last'.status = 429 /\ ip \in blocked_ips']_vars

---------------------------------------------------------------------------
(* Properties of the login bookkeeping.                                    *)

\* the failures of the list recorded within the last 10 minutes
InWindow(attempts, t) ==
    Cardinality({i \in 1..Len(attempts) : attempts[i].timestamp > t - FAILED_LOGIN_WINDOW})

\* C2: when a log_failed_login call leaves five or more failures of the user
\* within 10 minutes (none cleared by a successful login), the user is in
\* blocked_users; with four or fewer the call blocks nobody.
C2_FiveFailuresBlock ==
    [][\A u \in Users, ip \in IPs :
          LogFailedLogin(u, ip)
          => LET failures == InWindow(user_failed_attempts'[u], now)
             IN  /\ failures >= MAX_FAILED_ATTEMPTS => u \in blocked_users'
                 /\ failures < MAX_FAILED_ATTEMPTS => blocked_users' = blocked_users]_vars

\* C6: log_successful_login empties the failure lists of the user and of the
\* address, and each failed login adds one failure to what is on record, so four
\* failures after a successful login count 4 whatever came before it, and block
\* nobody.
C6_SuccessClears ==
    [][\A u \in Users, ip \in IPs :
          /\ LogSuccessfulLogin(u, ip)
                => user_failed_attempts'[u] = <<>> /\ ip_failed_attempts'[ip] = <<>>
          /\ LogFailedLogin(u, ip)
                => /\ Len(user_failed_attempts'[u]) = Len(user_failed_attempts[u]) + 1
                   /\ Len(ip_failed_attempts'[ip]) <= Len(ip_failed_attempts[ip]) + 1
                   /\ Len(user_failed_attempts'[u]) < MAX_FAILED_ATTEMPTS
                          => blocked_users' = blocked_users]_vars

\* C6 happens: a successful login has cleared four failures of its user
C6_Witness ==
    /\ last.op = "log_successful_login"
    /\ last.before = 4
    /\ user_failed_attempts[last.user] = <<>>
    /\ ip_failed_attempts[last.ip] = <<>>

\* no failure of the list is older than 10 minutes
NoneExpired(attempts, t) ==
    \A i \in 1..Len(attempts) : attempts[i].timestamp > t - FAILED_LOGIN_WINDOW

\* C9: after log_failed_login has run check_failed_login_attempts for the address
\* and for the user, neither stored list holds a failure older than 10 minutes.
C9_NoExpiredFailure ==
    [][\A u \in Users, ip \in IPs :
          LogFailedLogin(u, ip)
          => /\ NoneExpired(ip_failed_attempts'[ip], now)
             /\ NoneExpired(user_failed_attempts'[u], now)]_vars

---------------------------------------------------------------------------
(* Properties of blocking.                                                 *)

\* the distinct users that block_user has blocked from this address, read off the
\* durable records
BlockedFrom(ip) == {r.email : r \in {b \in BagToSet(db_blocked_users) : b.ip = ip}}

\* C3: a block_user call that makes three (or more) distinct users blocked from
\* one address leaves that address in blocked_ips; a call that leaves one or two
\* distinct users blocked from it adds nothing to blocked_ips.
C3_ThirdUserBlocksIp ==
    [][\A email \in Users, ip \in BlockIPs :
          BlockUser(email, ip)
          => LET users == Cardinality(BlockedFrom(ip)')
             IN  /\ users >= MAX_BLOCKED_USERS_PER_IP => ip \in blocked_ips'
                 /\ users < MAX_BLOCKED_USERS_PER_IP => blocked_ips' = blocked_ips]_vars

\* C3 happens: block_user has just blocked the third distinct user of an address
C3_Witness ==
    /\ last.op = "block_user"
    /\ last.ip # None
    /\ Cardinality(BlockedFrom(last.ip)) = MAX_BLOCKED_USERS_PER_IP
    /\ last.ip \in blocked_ips

\* C10: block_ip on an address already in blocked_ips, and block_user on a user
\* already in blocked_users, raise nothing and leave the members of that block
\* set as they were.
C10_BlockIdempotent ==
    [][/\ \A ip \in BlockIPs :
             BlockIp(ip) /\ ip \in blocked_ips
             => blocked_ips' = blocked_ips /\ ~last'.raised
       /\ \A email \in Users, ip \in BlockIPs \cup {None} :
             BlockUser(email, ip) /\ email \in blocked_users
             => blocked_users' = blocked_users /\ ~last'.raised]_vars

\* C10 happens: a user who was already blocked has been blocked again, and so has
\* an address
C10_Witness ==
    /\ last.op = "block_ip"
    /\ \E r \in BagToSet(db_blocked_ips) :
          r.ip = last.ip /\ CopiesIn(r, db_blocked_ips) >= 2
    /\ \E r \in BagToSet(db_blocked_users) : CopiesIn(r, db_blocked_users) >= 2
    /\ last.ip \in blocked_ips

\* the addresses of 172.16.0.0/12
Private172 ==
    {"172.16.", "172.17.", "172.18.", "172.19.", "172.20.", "172.21.", "172.22.",
     "172.23.", "172.24.", "172.25.", "172.26.", "172.27.", "172.28.", "172.29.",
     "172.30.", "172.31."}

\* the trusted addresses: loopback, 10.0.0.0/8 and 172.16.0.0/12
TrustedAddress(ip) ==
    \/ ip \in {"127.0.0.1", "::1"}
    \/ StartsWith(ip, "10.")
    \/ \E prefix \in Private172 : StartsWith(ip, prefix)

\* C4: no trusted address is ever in blocked_ips, and is_ip_blocked is false for
\* every trusted address.
C4_TrustedNeverBlocked ==
    \A ip \in IPs :
        TrustedAddress(ip) => ip \notin blocked_ips /\ ~is_ip_blocked(State, ip)

---------------------------------------------------------------------------
(* Properties of unblocking.                                               *)

\* C11: for a user that unblock_user has unblocked, a failed login that is the
\* first to the fourth since the unblock leaves the user not blocked, and the
\* fifth since the unblock (all within 10 minutes) leaves the user blocked again.
C11_FreshFiveReblock ==
    [][\A u \in Users, ip \in IPs :
          LogFailedLogin(u, ip) /\ since_unblock[u].unblocked
          => /\ since_unblock'[u].failures < MAX_FAILED_ATTEMPTS => u \notin blocked_users'
             /\ since_unblock'[u].failures >= MAX_FAILED_ATTEMPTS => u \in blocked_users']_vars

\* C12: block_user for a user already in blocked_users_per_ip[ip] leaves that set
\* as it is, so repeated blocks of one user count once toward the threshold of 3
\* and by themselves never block the address.
C12_RepeatCountsOnce ==
    [][\A email \in Users, ip \in BlockIPs :
          BlockUser(email, ip) /\ email \in blocked_users_per_ip[ip]
          => /\ blocked_users_per_ip'[ip] = blocked_users_per_ip[ip]
             /\ Cardinality(blocked_users_per_ip'[ip]) = Cardinality(BlockedFrom(ip))
             /\ Cardinality(blocked_users_per_ip[ip]) < MAX_BLOCKED_USERS_PER_IP
                    => blocked_ips' = blocked_ips]_vars

\* C12 happens: one user has been blocked three times from an address, which
\* counts one blocked user and is not blocked
C12_Witness ==
    /\ last.op = "block_user"
    /\ last.ip # None
    /\ \E r \in BagToSet(db_blocked_users) :
          r.email = last.user /\ r.ip = last.ip /\ CopiesIn(r, db_blocked_users) >= 3
    /\ blocked_users_per_ip[last.ip] = {last.user}
    /\ last.ip \notin blocked_ips

---------------------------------------------------------------------------
(* Properties of the failed logins of an address.                          *)

\* C13: a log_failed_login call adds nothing to blocked_ips while fewer than 3
\* distinct users are blocked from the address; when the address has 5 or more
\* failures within 10 minutes the call writes one brute_force record of
\* severity high, with fewer it writes none; and it blocks no user but its own.
C13_FailuresNeverBlockIp ==
    [][\A u \in Users, ip \in IPs :
          LogFailedLogin(u, ip)
          => /\ Cardinality(blocked_users_per_ip'[ip]) < MAX_BLOCKED_USERS_PER_IP
                    => blocked_ips' = blocked_ips
             /\ blocked_users' \subseteq blocked_users \cup {u}
             /\ IF InWindow(ip_failed_attempts'[ip], now) >= MAX_FAILED_ATTEMPTS
                THEN db_web_attacks' = db_web_attacks (+)
                         SetToBag({[attack_type |-> "brute_force", ip |-> ip,
                                    email |-> u, severity |-> "high"]})
                ELSE db_web_attacks' = db_web_attacks]_vars

\* C13 happens: the fifth failure of an address has been recorded as a
\* brute_force attack and the address is not blocked
C13_Witness ==
    /\ last.op = "log_failed_login"
    /\ Len(ip_failed_attempts[last.ip]) >= MAX_FAILED_ATTEMPTS
    /\ AttackRecords(db_web_attacks, "brute_force", last.ip) = 1
    /\ last.ip \notin blocked_ips

---------------------------------------------------------------------------
(* Properties of the activity bursts.                                      *)

\* C14: a log_user_activity call that finds more than 10 actions of its user in
\* the last 60 seconds blocks that user and writes one suspicious_activity
\* record of severity medium; and no log_user_activity call adds an address to
\* blocked_ips.
C14_BurstBlocksUserOnly ==
    [][\A u \in Users, ip \in IPs :
          LogUserActivity(u, ip)
          => /\ Len(Recent(user_activities'[u], now, ACTIVITY_WINDOW)) > SUSPICIOUS_ACTIVITY_COUNT
                    => /\ u \in blocked_users'
                       /\ db_web_attacks' = db_web_attacks (+)
                              SetToBag({[attack_type |-> "suspicious_activity", ip |-> ip,
                                         email |-> None, severity |-> "medium"]})
             /\ blocked_ips' = blocked_ips]_vars

---------------------------------------------------------------------------
(* Properties of the durable block records.                                *)

\* the durable block records of status active of an address, and of a user
ActiveIpRecords(collection, ip) ==
    {r \in BagToSet(collection) : r.ip = ip /\ r.status = "active"}
ActiveUserRecords(collection, email) ==
    {r \in BagToSet(collection) : r.email = email /\ r.status = "active"}

\* C15: an unblock_ip call that answers 200 leaves the address out of blocked_ips
\* and no record of the address with status active in the collection
\* blocked_ips; unblock_user does the same for the user, blocked_users and the
\* collection blocked_users.
C15_UnblockLeavesNoActive ==
    [][/\ \A caller \in Callers, ip \in IPs :
             UnblockIp(caller, ip) /\ last'.status = 200
             => ip \notin blocked_ips' /\ ActiveIpRecords(db_blocked_ips', ip) = {}
       /\ \A caller \in Callers, u \in Users :
             UnblockUser(caller, u) /\ last'.status = 200
             => u \notin blocked_users' /\ ActiveUserRecords(db_blocked_users', u) = {}]_vars

---------------------------------------------------------------------------
(* Properties of calls made in concurrent threads.                         *)

\* the calls that the threads have completed
RECURSIVE CallsOf(_)
CallsOf(W) ==
    IF W = {} THEN 0
    ELSE LET w == CHOOSE x \in W : TRUE IN workers[w].calls + CallsOf(W \ {w})

\* C16: when no log_failed_login call is in flight, the failure list of the
\* address and the failure list of the user each hold one entry per call made
\* (all calls within 10 minutes, no successful login), whatever the interleaving
\* of the calls was.
C16_BothRacersCount ==
    (\A w \in Workers : workers[w].pc = "idle")
    => /\ Len(ip_failed_attempts[PUBLIC]) = CallsOf(Workers)
       /\ Len(user_failed_attempts["alice"]) = CallsOf(Workers)

\* C17: once block_user has returned for three distinct users of an address, in
\* whatever interleaving of the threads, the address is in blocked_ips.
C17_ThreeBlockedEscalate ==
    \A ip \in IPs :
        Cardinality(BlockedFrom(ip)) >= MAX_BLOCKED_USERS_PER_IP => ip \in blocked_ips

\* C17 happens: three threads have blocked three users of one address, each
\* testing the threshold after the other two had added their user, so that each
\* has blocked the address
C17_Witness ==
    /\ \A w \in Workers : workers[w].pc = "idle" /\ workers[w].calls = 1
    /\ Cardinality(BlockedFrom(PUBLIC)) = MAX_BLOCKED_USERS_PER_IP
    /\ BagCardinality(db_blocked_ips) = 3
    /\ PUBLIC \in blocked_ips

---------------------------------------------------------------------------
(* Properties of the request gate with a degraded store.                   *)

\* what check_request does with a working store in the same in-memory state
WithStore(ip, name) ==
    check_request([State EXCEPT !.db_connected = TRUE, !.db_failing = FALSE], ip, name)

\* C18: whatever the store (working, absent, unreachable), check_request returns
\* the status and leaves the blocked_ips and ip_activities that it does with a
\* working store.
C18_VerdictWithoutStore ==
    [][\A ip \in IPs, name \in RequestNames :
          SecurityCheck(ip, name)
          => /\ last'.status = WithStore(ip, name).status
             /\ blocked_ips' = WithStore(ip, name).S.blocked_ips
             /\ ip_activities' = WithStore(ip, name).S.ip_activities]_vars

---------------------------------------------------------------------------
(* What check_request leaves unchanged.                                    *)

\* the in-memory state and the audit records are as they were
NothingChanged ==
    UNCHANGED <<now, ip_failed_attempts, user_failed_attempts, blocked_ips, blocked_users,
                user_activities, ip_activities, blocked_users_per_ip, db_connected,
                db_web_attacks, db_blocked_ips, db_blocked_users>>

C20_ExemptedUntouched ==
    [][\A ip \in IPs, name \in RequestNames :
          SecurityCheck(ip, name) /\ Exempted(ip)
          => last'.status = 0 /\ NothingChanged]_vars

\* C20 happens: an exempted address with more than 100 activities in the last
\* minute has sent "1 OR 1=1" and was let through
C20_Witness ==
    /\ last.op = "check_request"
    /\ last.request = "json_tautology"
    /\ last.status = 0
    /\ TrustedAddress(last.ip)
    /\ Len(Recent(ip_activities[last.ip], now, RATE_LIMIT_WINDOW)) > MAX_REQUESTS_PER_MINUTE
    /\ last.ip \notin blocked_ips

---------------------------------------------------------------------------
(* Properties of the login route.                                          *)

\* C21: a login with an email and a password that carry no attack signature,
\* sent from an address that is not exempted, not blocked and under the rate
\* threshold, is not answered 400, does not block the address and writes no
\* attack record of the payload checks: it is answered by the login flow
C21_LoginNotScanned ==
    [][(/\ last'.op = "login"
        /\ last' # last
        /\ ReachesScan(last'.ip))
       => /\ last'.status # 400
          /\ last'.ip \notin blocked_ips'
          /\ AttackRecords(db_web_attacks', "sql_injection", last'.ip) = 0]_vars

\* C22: log_successful_login leaves blocked_ips, blocked_users and
\* blocked_users_per_ip as they are
C22_SuccessKeepsBlocks ==
    [][last'.op = "log_successful_login"
       => /\ blocked_ips' = blocked_ips
          /\ blocked_users' = blocked_users
          /\ blocked_users_per_ip' = blocked_users_per_ip]_vars

\* a successful login of a blocked user from a blocked address has cleared the
\* failures on record, and both are still blocked
C22_Witness ==
    /\ last.op = "log_successful_login"
    /\ last.before > 0
    /\ user_failed_attempts[last.user] = <<>>
    /\ last.user \in blocked_users
    /\ last.ip \in blocked_ips
    /\ last.user \in blocked_users_per_ip[last.ip]

---------------------------------------------------------------------------
(* Properties of the life of a block.                                      *)

AllExpired(collection, field, value) ==
    /\ \E r \in BagToSet(collection) : r[field] = value
    /\ \A r \in BagToSet(collection) :
           r[field] = value => r.status = "active" /\ r.expires_at < now

C30_PerIpOnlyGrows ==
    [][\A ip \in IPs :
           /\ blocked_users_per_ip[ip] \subseteq blocked_users_per_ip'[ip]
           /\ Cardinality(blocked_users_per_ip'[ip]) >= Cardinality(blocked_users_per_ip[ip])]_vars

\* a user blocked by a burst from an address was unblocked from the dashboard and
\* is still counted as blocked from the address
C30_Witness ==
    /\ last.op = "unblock_user"
    /\ last.status = 200
    /\ last.user \notin blocked_users
    /\ last.user \in blocked_users_per_ip[PUBLIC]
    /\ Len(user_activities[last.user]) > SUSPICIOUS_ACTIVITY_COUNT

---------------------------------------------------------------------------
(* Properties of the payload checks.                                       *)

\* the attack kinds in the order check_request tests them, and their severity
Kinds == <<"sql_injection", "xss", "path_traversal", "command_injection">>
SeverityOf(kind) == IF kind = "command_injection" THEN "critical" ELSE "high"

\* the positions in Kinds of the kinds whose detector matches the text scanned
MatchedKinds(name) ==
    LET t == PyStr(safe_get_request_data(RequestOf(name)))
    IN  {k \in 1..4 :
            \/ k = 1 /\ detect_sql_injection(t)
            \/ k = 2 /\ detect_xss(t)
            \/ k = 3 /\ detect_path_traversal(t)
            \/ k = 4 /\ detect_command_injection(t)}

\* the requests that match some kind, and the first kind each matches
AttackRequests == {name \in RequestNames : MatchedKinds(name) # {}}
FirstKind == [name \in AttackRequests |->
                 Kinds[CHOOSE k \in MatchedKinds(name) : \A j \in MatchedKinds(name) : k <= j]]

\* C24: a request that matches one attack kind or several, from an address that
\* reaches the payload checks, adds exactly one attack record, of the first kind
\* matched in the order sql_injection, xss, path_traversal, command_injection and
\* of severity high (critical for command_injection), blocks the address and is
\* answered 400
C24_FirstKindOnly ==
    [][\A ip \in IPs, name \in AttackRequests :
          (last'.ip = ip /\ last'.request = name /\ SecurityCheck(ip, name) /\ ReachesScan(ip))
          => /\ last'.status = 400
             /\ ip \in blocked_ips'
             /\ db_web_attacks' =
                    db_web_attacks (+) SetToBag({[attack_type |-> FirstKind[name], ip |-> ip,
                                                  email |-> Scanned[name].email,
                                                  severity |-> SeverityOf(FirstKind[name])]})]_vars

\* a text that matches the last two kinds has been denied, and web_attacks holds
\* one record, of path_traversal and of severity high
C24_Witness ==
    /\ last.op = "check_request"
    /\ last.request = "text_path_pipe"
    /\ last.status = 400
    /\ last.ip \in blocked_ips
    /\ Cardinality(MatchedKinds(last.request)) = 2
    /\ BagCardinality(db_web_attacks) = 1
    /\ \E a \in BagToSet(db_web_attacks) :
           a.attack_type = "path_traversal" /\ a.severity = "high" /\ a.ip = last.ip

\* the requests whose User-Agent holds a listed scanner substring
ScannerRequests ==
    {name \in RequestNames : is_suspicious_user_agent(RequestOf(name).user_agent)}

\* C25: a request with a scanner's User-Agent, from an address that reaches the
\* payload checks, adds a record of severity low to web_attacks, and is not
\* denied when its payload is clean
C25_ScannerAudited ==
    [][\A ip \in IPs, name \in ScannerRequests :
          (last'.ip = ip /\ last'.request = name /\ SecurityCheck(ip, name) /\ ReachesScan(ip))
          => /\ \E a \in BagToSet(db_web_attacks') :
                   /\ a.severity = "low"
                   /\ a.ip = ip
                   /\ CopiesIn(a, db_web_attacks') = CopiesIn(a, db_web_attacks) + 1
             /\ name \in CleanRequests => last'.status = 0]_vars

\* the requests whose body could not be parsed
MalformedRequests ==
    {name \in RequestNames : RequestOf(name).is_json /\ RequestOf(name).json.type = "malformed"}

\* C26: a request whose body cannot be parsed, from an address that reaches the
\* payload checks, does not make check_request raise: it is allowed and recorded
\* as a request with no payload is, and blocks nothing
C26_MalformedAllowed ==
    [][\A ip \in IPs, name \in MalformedRequests :
          (last'.ip = ip /\ last'.request = name /\ SecurityCheck(ip, name) /\ ReachesScan(ip))
          => /\ last'.status = 0
             /\ ~last'.raised
             /\ blocked_ips' = blocked_ips
             /\ db_web_attacks' = db_web_attacks
             /\ ip_activities' = check_request(State, ip, "empty").S.ip_activities]_vars

\* a truncated JSON body has been let through and recorded
C26_Witness ==
    /\ last.op = "check_request"
    /\ last.request = "malformed_json"
    /\ last.request \in MalformedRequests
    /\ last.status = 0
    /\ ~Exempted(last.ip)
    /\ ip_activities[last.ip] # <<>>
    /\ last.ip \notin blocked_ips

\* C27: a request with an attack signature from an address that is not in the
\* trusted list (127.0.0.1, ::1, 10.0.0.0/8, 172.16.0.0/12), not blocked and under
\* the rate threshold, is answered 400 and its address blocked; 172.32.0.1 is
\* such an address
C27_OutsideRangeDenied ==
    [][\A ip \in IPs, name \in AttackRequests :
          (/\ last'.ip = ip /\ last'.request = name
           /\ SecurityCheck(ip, name)
           /\ ~TrustedAddress(ip)
           /\ ip \notin blocked_ips
           /\ Len(Recent(ip_activities[ip], now, RATE_LIMIT_WINDOW)) <= MAX_REQUESTS_PER_MINUTE)
          => last'.status = 400 /\ ip \in blocked_ips']_vars

\* C28: one request is evaluated by check_request once: whatever the route, it
\* adds one entry at most to the ip_activities of its address, the entry of the
\* request allowed
C28_CountedOnce ==
    [][\A ip \in IPs : Len(ip_activities'[ip]) <= Len(ip_activities[ip]) + 1]_vars

---------------------------------------------------------------------------
(* Properties of the activity burst.                                       *)

\* the actions of the list made in the 60 seconds before t
InLastMinute(activities, t) ==
    Cardinality({i \in 1..Len(activities) : t - activities[i].timestamp < 60})

\* C29: a call of log_user_activity blocks the user when, and only when, the
\* action is the 11th or a later one of the user within the trailing 60 seconds;
\* actions 60 seconds old or older are not counted
C29_EleventhBlocks ==
    [][\A u \in Users, ip \in IPs :
          LogUserActivity(u, ip)
          => LET count == InLastMinute(user_activities'[u], now)
             IN  /\ count > 10
                     => /\ u \in blocked_users'
                        /\ BagCardinality(db_blocked_users')
                               = BagCardinality(db_blocked_users) + 1
                 /\ count <= 10
                     => /\ blocked_users' = blocked_users
                        /\ db_blocked_users' = db_blocked_users]_vars

\* the 11th action within a minute has blocked a user who had an older action on
\* record: 12 actions are on record, 11 of them of the last minute
C29_Witness ==
    /\ last.op = "log_user_activity"
    /\ last.user \in blocked_users
    /\ BagCardinality(db_blocked_users) = 1
    /\ Len(user_activities[last.user]) = 12
    /\ InLastMinute(user_activities[last.user], now) = 11

---------------------------------------------------------------------------
(* Properties of the unblock routes.                                       *)

\* the list long extends the list short
Extends(long, short) ==
    Len(long) >= Len(short) /\ SubSeq(long, 1, Len(short)) = short

---------------------------------------------------------------------------
(* Properties of the durable block records.                                *)

\* the number of records of the collection with this value in this field and
\* status 'active'
ActiveCount(collection, field, value) ==
    LET recs == {r \in BagToSet(collection) : r[field] = value /\ r.status = "active"}
        RECURSIVE Sum(_)
        Sum(R) == IF R = {} THEN 0
                  ELSE LET r == CHOOSE x \in R : TRUE
                       IN  CopiesIn(r, collection) + Sum(R \ {r})
    IN  Sum(recs)

\* C32: no address and no user has more than one durable block record with
\* status 'active'
C32_OneActiveRecord ==
    /\ \A ip \in IPs : ActiveCount(db_blocked_ips, "ip", ip) <= 1
    /\ \A u \in Users : ActiveCount(db_blocked_users, "email", u) <= 1

---------------------------------------------------------------------------
(* Properties of the request gate under concurrent requests.               *)

\* C33: of the requests of one address that is not exempted, at most 101 within
\* 60 seconds are allowed, that is, recorded in ip_activities, however the
\* threads that handle them interleave
C33_AtMost101Allowed ==
    \A ip \in IPs :
        ~Exempted(ip)
            => Len(Recent(ip_activities[ip], now, RATE_LIMIT_WINDOW))
                   <= MAX_REQUESTS_PER_MINUTE + 1

---------------------------------------------------------------------------
(* Properties of logins under concurrent calls.                            *)

\* C34: the failures of an address that a successful login cleared stay cleared:
\* the empty list of the address gets an entry only when a thread records a new
\* failure, never when a thread stores the list it pruned before the clear
C34_ClearNotUndone ==
    [][\A ip \in IPs :
          (ip_failed_attempts[ip] = <<>> /\ ip_failed_attempts'[ip] # <<>>)
          => /\ Len(ip_failed_attempts'[ip]) = 1
             /\ \E w \in Workers :
                   /\ workers[w].pc = "idle"
                   /\ workers'[w].pc = "append_user"
                   /\ workers'[w].ip = ip]_vars

\* C35: a login of a blocked user, or from an address is_ip_blocked reports as
\* blocked, is answered 403 and leaves the failure lists and the block sets as
\* they are
C35_BlockedLoginRefused ==
    [][\A ip \in RouteIPs, credentials_ok \in BOOLEAN :
          (/\ last'.op = "login" /\ last'.ip = ip
           /\ Login(ip, "json_login", credentials_ok)
           /\ Scanned["json_login"].email \in blocked_users \/ is_ip_blocked(State, ip))
          => /\ last'.status = 403
             /\ user_failed_attempts' = user_failed_attempts
             /\ ip_failed_attempts' = ip_failed_attempts
             /\ blocked_ips' = blocked_ips
             /\ blocked_users' = blocked_users
             /\ blocked_users_per_ip' = blocked_users_per_ip]_vars

---------------------------------------------------------------------------
(* Properties of the Cowrie forwarder.                                     *)

\* C36: every session with login attempts or commands on record is an active
\* session
C36_TrackedOnlyIfActive ==
    (DOMAIN session_auth_attempts \cup DOMAIN session_commands) \subseteq DOMAIN active_sessions

\* C37: the closed event of an active session takes the session out of
\* active_sessions, session_auth_attempts and session_commands, whatever was
\* recorded for it
C37_CloseForgetsSession ==
    [][\A session \in Sessions :
          (/\ processed'.eventid = "cowrie.session.closed"
           /\ processed'.session = session
           /\ ProcessEvent(Event("cowrie.session.closed", session))
           /\ session \in DOMAIN active_sessions)
          => /\ session \notin DOMAIN active_sessions'
             /\ session \notin DOMAIN session_auth_attempts'
             /\ session \notin DOMAIN session_commands']_vars

\* an active session with no login attempt and no command has been closed: the
\* handler ended in the KeyError of its last del, and the session is on record
\* nowhere
C37_Witness ==
    /\ processed.eventid = "cowrie.session.closed"
    /\ processed.tracked
    /\ processed.raised
    /\ processed.session \notin DOMAIN active_sessions
    /\ processed.session \notin DOMAIN session_auth_attempts
    /\ processed.session \notin DOMAIN session_commands

\* C38: the closed event of an active session writes a brute_force_attacks record
\* exactly when 3 or more login attempts of the session failed, with attempts
\* the number of failed ones; successful attempts do not count
C38_BruteForceIffThreeFailed ==
    [][\A session \in Sessions :
          (/\ processed'.eventid = "cowrie.session.closed"
           /\ processed'.session = session
           /\ ProcessEvent(Event("cowrie.session.closed", session))
           /\ session \in DOMAIN active_sessions)
          => brute_force_attacks' =
                 IF FailedCount(session) >= 3
                 THEN brute_force_attacks
                      (+) SetToBag({[attack_id |-> session, attempts |-> FailedCount(session)]})
                 ELSE brute_force_attacks]_vars

\* a session closed after 3 failed attempts has its record, with attempts 3
C38_Witness ==
    /\ processed.eventid = "cowrie.session.closed"
    /\ processed.tracked
    /\ processed.failed = 3
    /\ CopiesIn([attack_id |-> processed.session, attempts |-> 3], brute_force_attacks) = 1

====
